---- MODULE Spec2Model ----
(***************************************************************************)
(* A model of the simulation core in src/script.js: the grid A*            *)
(* pathfinder (AStar), the per-unit update (Unit), combat and the frame    *)
(* loop (gameLoop).                                                        *)
(*                                                                         *)
(* Numbers.  World coordinates are integers counting 1/Sub of a pixel, a   *)
(* resolution at which every speed, radius, range and slot offset of the   *)
(* source is a whole number; a quotient by a distance is rounded to the    *)
(* nearest such step.  The g and f scores of the pathfinder are IEEE 754   *)
(* doubles and are kept bit for bit: a score is the integer that counts    *)
(* 2^-52, in two limbs, and a sum is rounded to 53 significant bits, ties  *)
(* to even.  The claims about route costs compare the reals a + b*sqrt(2), *)
(* kept exactly as the pair <<a, b>>.                                      *)
(***************************************************************************)
EXTENDS Integers, Sequences, FiniteSets, TLC

----------------------------------------------------------------------------
(* State.                                                                  *)

VARIABLES
    obstacles,   \* game.obstacles: the set of obstacle rectangles (top-left corners)
    query,       \* the arguments of the findPath call in progress
    search,      \* the A* structures of the call in progress
    pfState,     \* "call": entered, "loop": in the while loop, "done": returned
    pfResult,    \* what the call returned
    game,        \* the game object and the Unit and Formation objects it refers to
    loop,        \* where the frame in progress stands
    hist,        \* what has happened so far (history, read by the claims only)
    scene,       \* the session followed: the units init() places, the frame
                 \* lengths, the points of the mouse events, how far it is followed
    page         \* the window, the canvas and the grids computed from its size

pathVars == << obstacles, query, search, pfState, pfResult >>

gameVars == << game, loop, hist, scene, page >>

vars == << obstacles, query, search, pfState, pfResult, game, loop, hist, scene, page >>

----------------------------------------------------------------------------
(* Program constants and the bounds of the model.                          *)

TILE_SIZE == 32

\* Steps per pixel: tenths for the speeds, halves of those for the radius 7.5
\* and the boosted speed 0.75.
Sub == 2 * 10

\* The side of a tile in steps.
TileLen == TILE_SIZE * Sub

\* The canvas is MaxCols tiles wide and three tiles high.
MaxCols == 3
\* At most this many obstacle tiles are placed.
MaxObstacles == 2

CanvasWidth == MaxCols * TileLen
CanvasHeight == 3 * TileLen

CeilDiv(a, b) == (a + b - 1) \div b

\* AStar.constructor
gridWidth == CeilDiv(CanvasWidth, TileLen)
gridHeight == CeilDiv(CanvasHeight, TileLen)

Tiles == (0 .. gridWidth - 1) \X (0 .. gridHeight - 1)

\* this.gridWidth and this.gridHeight of the pathfinder: where the window is
\* followed, what the constructor computed from the canvas the script loaded
\* with.
thisGridWidth == IF page.gridWidth > 0 THEN page.gridWidth ELSE gridWidth
thisGridHeight == IF page.gridHeight > 0 THEN page.gridHeight ELSE gridHeight

Pt(px, py) == [x |-> px, y |-> py]

\* The obstacle whose top-left corner is the tile's corner (init()).
ObstacleAt(t) == Pt(t[1] * TileLen, t[2] * TileLen)

\* Math.floor(v / TILE_SIZE) of a world point.
TileOf(p) == << p.x \div TileLen, p.y \div TileLen >>

TileCenter(t) == Pt(t[1] * TileLen + TileLen \div 2, t[2] * TileLen + TileLen \div 2)

----------------------------------------------------------------------------
(* Exact arithmetic on a + b*sqrt(2).                                      *)

RECURSIVE LtSqrt2(_, _)
\* p / q < sqrt(2), for p >= 0 and q > 0 (continued-fraction descent).
LtSqrt2(p, q) ==
    IF p < q THEN TRUE
    ELSE IF p >= 2 * q THEN FALSE
    ELSE IF p = q THEN TRUE
    ELSE ~LtSqrt2(2 * q - p, p - q)

\* The sign of p + q*sqrt(2).
SgnR2(p, q) ==
    IF p = 0 /\ q = 0 THEN 0
    ELSE IF p >= 0 /\ q >= 0 THEN 1
    ELSE IF p <= 0 /\ q <= 0 THEN -1
    ELSE IF p > 0 THEN (IF LtSqrt2(p, -q) THEN -1 ELSE 1)
    ELSE (IF LtSqrt2(-p, q) THEN 1 ELSE -1)

CostLess(c1, c2) == SgnR2(c1[1] - c2[1], c1[2] - c2[2]) < 0

CostAdd(c1, c2) == << c1[1] + c2[1], c1[2] + c2[2] >>

----------------------------------------------------------------------------
(* IEEE 754 double arithmetic on the scores of the pathfinder.  A double d *)
(* with 0 <= d < 64 is the integer N = d * 2^52, kept as the limbs         *)
(* << N \div 2^28, N % 2^28 >>.                                            *)

Limb == 2 ^ 28

\* 1.0
DoubleOne == << 2 ^ 24, 0 >>

\* Math.SQRT2 = 1.4142135623730951 = 6369051672525773 * 2^-52
SQRT2 == << 23726566, 109001677 >>

\* a < b
DoubleLess(a, b) == a[1] < b[1] \/ (a[1] = b[1] /\ a[2] < b[2])

RECURSIVE LostBits(_, _)
\* The number of low bits a double of the size of N = hi * 2^28 + lo cannot
\* hold: the least e with N < 2^(53 + e).
LostBits(hi, e) == IF hi < 2 ^ (25 + e) THEN e ELSE LostBits(hi, e + 1)

\* N = hi * 2^28 + lo rounded to a multiple of 2^e, ties to the even multiple.
RoundToEven(hi, lo, e) ==
    LET q    == 2 ^ e
        r    == lo % q
        down == lo - r
        up   == 2 * r > q \/ (2 * r = q /\ (down \div q) % 2 = 1)
        lo2  == IF up THEN down + q ELSE down
    IN  IF lo2 = Limb THEN << hi + 1, 0 >> ELSE << hi, lo2 >>

\* a + b: the exact sum, rounded to 53 significant bits.
DoubleAdd(a, b) ==
    LET lo == a[2] + b[2]
        hi == a[1] + b[1] + lo \div Limb
    IN  RoundToEven(hi, lo % Limb, LostBits(hi, 0))

\* Math.sqrt(n) for the sums of squares n of the tile differences of the
\* playfields followed: the double nearest to the root.
MathSqrt ==
    0 :> << 0, 0 >> @@ 1 :> << 16777216, 0 >> @@ 2 :> << 23726566, 109001677 >> @@
    4 :> << 33554432, 0 >> @@ 5 :> << 37514995, 120580432 >> @@ 8 :> << 47453132, 218003354 >> @@
    9 :> << 50331648, 0 >> @@ 10 :> << 53054215, 95729318 >> @@ 13 :> << 60491112, 146977766 >> @@
    16 :> << 67108864, 0 >> @@ 17 :> << 69174233, 180335644 >> @@ 20 :> << 75029990, 241160864 >> @@
    25 :> << 83886080, 0 >> @@ 26 :> << 85547351, 206094296 >> @@ 29 :> << 90348073, 44263372 >> @@
    36 :> << 100663296, 0 >> @@ 37 :> << 102051820, 227504356 >> @@ 40 :> << 106108430, 191458636 >> @@
    49 :> << 117440512, 0 >> @@ 50 :> << 118632832, 8137472 >> @@ 53 :> << 122139976, 31190948 >> @@
    64 :> << 134217728, 0 >> @@ 65 :> << 135262239, 185456256 >> @@ 68 :> << 138348467, 92235832 >> @@
    81 :> << 150994944, 0 >> @@ 82 :> << 151924152, 114278688 >> @@ 85 :> << 154678288, 209810640 >> @@
    100 :> << 167772160, 0 >> @@ 101 :> << 168608934, 18435968 >> @@ 104 :> << 171094703, 143753136 >> @@
    121 :> << 184549376, 0 >> @@ 122 :> << 185310407, 156586560 >> @@ 125 :> << 187574977, 66031248 >> @@
    144 :> << 201326592, 0 >> @@ 145 :> << 202024433, 62499120 >> @@ 148 :> << 204103641, 186573256 >> @@
    169 :> << 218103808, 0 >> @@ 170 :> << 218748133, 214643336 >> @@ 173 :> << 220669823, 114403056 >> @@
    196 :> << 234881024, 0 >> @@ 197 :> << 235479447, 257956168 >> @@ 200 :> << 237265664, 16274944 >>

----------------------------------------------------------------------------
(* AStar                                                                   *)

\* AStar.isBlocked
isBlocked(obs, gx, gy) ==
    IF gx < 0 \/ gy < 0 \/ gx >= thisGridWidth \/ gy >= thisGridHeight THEN TRUE
    ELSE \E ob \in obs : ob.x = gx * TileLen /\ ob.y = gy * TileLen

\* AStar.heuristic
heuristic(ax, ay, bx, by) == MathSqrt[(ax - bx) * (ax - bx) + (ay - by) * (ay - by)]

\* The 8-direction neighbour table of findPath.
neighbors == << <<1, 0>>, <<-1, 0>>, <<0, 1>>, <<0, -1>>,
                <<1, 1>>, <<1, -1>>, <<-1, 1>>, <<-1, -1>> >>

NoKey == << -1, -1 >>

\* The step cost: 1 orthogonal, Math.SQRT2 diagonal.
StepCost(dx, dy) == IF dx = 0 \/ dy = 0 THEN DoubleOne ELSE SQRT2

\* fScore of a key of the search: always set together with gScore, to
\* tentativeG + h.
getF(s, k) == DoubleAdd(s.gScore[k], heuristic(k[1], k[2], s.target[1], s.target[2]))

\* The A* structures after lines 76-96 of findPath.
SearchStart(startKey, targetKey) ==
    [ openHeap |-> << startKey >>,
      gScore   |-> [k \in {startKey} |-> <<0, 0>>],
      cameFrom |-> [k \in {startKey} |-> NoKey],
      pushes   |-> [k \in {startKey} |-> 1],
      target   |-> targetKey ]

RECURSIVE ScanLowest_Highest(_, _, _)
\* A scan whose comparison is reversed: it selects the highest fScore.
ScanLowest_Highest(s, i, bestIndex) ==
    IF i > Len(s.openHeap) THEN bestIndex
    ELSE IF bestIndex = 0 \/ DoubleLess(getF(s, s.openHeap[bestIndex]), getF(s, s.openHeap[i]))
         THEN ScanLowest_Highest(s, i + 1, i)
         ELSE ScanLowest_Highest(s, i + 1, bestIndex)

RECURSIVE ScanLowest(_, _, _)
\* The linear scan for the lowest fScore: the first index whose f is lowest.
ScanLowest(s, i, bestIndex) ==
    IF i > Len(s.openHeap) THEN bestIndex
    ELSE IF bestIndex = 0 \/ DoubleLess(getF(s, s.openHeap[i]), getF(s, s.openHeap[bestIndex]))
         THEN ScanLowest(s, i + 1, i)
         ELSE ScanLowest(s, i + 1, bestIndex)

BestIndex(s) == ScanLowest(s, 1, 0)

RemoveAt(seq, i) == SubSeq(seq, 1, i - 1) \o SubSeq(seq, i + 1, Len(seq))

InSeq(seq, e) == \E i \in 1 .. Len(seq) : seq[i] = e

\* A corner rule that looks at one flanking cell only.
CutsCorner_OneFlank(obs, cx, cy, dx, dy) == dx # 0 /\ dy # 0 /\ isBlocked(obs, cx + dx, cy)

\* No corner rule: a diagonal step is taken whatever its flanking cells are.
CutsCorner_Never(obs, cx, cy, dx, dy) == FALSE

\* A diagonal step is rejected when either flanking orthogonal cell is blocked.
CutsCorner(obs, cx, cy, dx, dy) ==
    dx # 0 /\ dy # 0 /\ (isBlocked(obs, cx + dx, cy) \/ isBlocked(obs, cx, cy + dy))

\* The body of the neighbour loop for one direction.
RelaxNeighbor(obs, s, cur, d) ==
    LET nx == cur[1] + d[1]
        ny == cur[2] + d[2]
        nk == << nx, ny >>
        tentativeG == DoubleAdd(s.gScore[cur], StepCost(d[1], d[2]))
    IN  IF nx < 0 \/ ny < 0 \/ nx >= thisGridWidth \/ ny >= thisGridHeight THEN s
        ELSE IF isBlocked(obs, nx, ny) THEN s
        ELSE IF CutsCorner(obs, cur[1], cur[2], d[1], d[2]) THEN s
        ELSE IF nk \in DOMAIN s.gScore /\ ~DoubleLess(tentativeG, s.gScore[nk]) THEN s
        ELSE [ s EXCEPT
                 !.cameFrom = [k \in DOMAIN s.cameFrom \cup {nk} |->
                                  IF k = nk THEN cur ELSE s.cameFrom[k]],
                 !.gScore = [k \in DOMAIN s.gScore \cup {nk} |->
                                  IF k = nk THEN tentativeG ELSE s.gScore[k]],
                 !.openHeap = IF InSeq(s.openHeap, nk) THEN s.openHeap
                              ELSE Append(s.openHeap, nk),
                 !.pushes = [k \in DOMAIN s.pushes \cup {nk} |->
                                  IF k = nk /\ ~InSeq(s.openHeap, nk)
                                  THEN (IF nk \in DOMAIN s.pushes THEN s.pushes[nk] + 1 ELSE 1)
                                  ELSE s.pushes[k]] ]

RECURSIVE RelaxFrom(_, _, _, _)
RelaxFrom(obs, s, cur, i) ==
    IF i > Len(neighbors) THEN s
    ELSE RelaxFrom(obs, RelaxNeighbor(obs, s, cur, neighbors[i]), cur, i + 1)

\* One pass of the while loop that does not reach the target: the current key
\* leaves the open set and its neighbours are relaxed.
Expand(obs, s) ==
    LET bi  == BestIndex(s)
        cur == s.openHeap[bi]
    IN  RelaxFrom(obs, [s EXCEPT !.openHeap = RemoveAt(s.openHeap, bi)], cur, 1)

RECURSIVE ChainTo(_, _)
\* The keys from the start to `current`, following cameFrom.
ChainTo(cameFrom, current) ==
    IF current = NoKey THEN << >>
    ELSE Append(ChainTo(cameFrom, cameFrom[current]), current)

Tail2(seq) == SubSeq(seq, 2, Len(seq))
AllButLast(seq) == SubSeq(seq, 1, Len(seq) - 1)

\* AStar.reconstructPath
reconstructPath(cameFrom, currentKey, start, target) ==
    LET chain  == ChainTo(cameFrom, currentKey)
        nodes0 == [i \in 1 .. Len(chain) |-> TileCenter(chain[i])]
        nodes  == IF Len(nodes0) > 0 /\ TileOf(start) = TileOf(nodes0[1])
                  THEN Tail2(nodes0) ELSE nodes0
    IN  << start >> \o (IF Len(nodes) > 0 THEN AllButLast(nodes) ELSE << >>) \o << target >>

\* lineSegmentsIntersect: uA and uB in [0, 1]; a zero denominator gives
\* NaN or an infinity, for which the comparisons are false.
lineSegmentsIntersect(x1, y1, x2, y2, x3, y3, x4, y4) ==
    LET den  == (y4 - y3) * (x2 - x1) - (x4 - x3) * (y2 - y1)
        numA == (x4 - x3) * (y1 - y3) - (y4 - y3) * (x1 - x3)
        numB == (x2 - x1) * (y1 - y3) - (y2 - y1) * (x1 - x3)
        In01(num) == IF den > 0 THEN 0 <= num /\ num <= den
                     ELSE den <= num /\ num <= 0
    IN  den # 0 /\ In01(numA) /\ In01(numB)

\* A test that looks at the segment's endpoints only, not at the four edges.
lineIntersectsAABB_EndpointsOnly(x1, y1, x2, y2, obstacle) ==
    \/ (x1 >= obstacle.x /\ x1 <= obstacle.x + TileLen /\ y1 >= obstacle.y /\ y1 <= obstacle.y + TileLen)
    \/ (x2 >= obstacle.x /\ x2 <= obstacle.x + TileLen /\ y2 >= obstacle.y /\ y2 <= obstacle.y + TileLen)

\* lineIntersectsAABB
lineIntersectsAABB(x1, y1, x2, y2, obstacle) ==
    LET ox == obstacle.x
        oy == obstacle.y
        T  == TileLen
    IN  \/ (x1 >= ox /\ x1 <= ox + T /\ y1 >= oy /\ y1 <= oy + T)
        \/ (x2 >= ox /\ x2 <= ox + T /\ y2 >= oy /\ y2 <= oy + T)
        \/ lineSegmentsIntersect(x1, y1, x2, y2, ox, oy, ox + T, oy)
        \/ lineSegmentsIntersect(x1, y1, x2, y2, ox + T, oy, ox + T, oy + T)
        \/ lineSegmentsIntersect(x1, y1, x2, y2, ox, oy + T, ox + T, oy + T)
        \/ lineSegmentsIntersect(x1, y1, x2, y2, ox, oy, ox, oy + T)

hasObstacle(obs, p, q) == \E ob \in obs : lineIntersectsAABB(p.x, p.y, q.x, q.y, ob)

RECURSIVE SmoothScan(_, _, _, _)
\* The inner while loop of smoothPath (0-based indices): the value of
\* nextIndex when the loop is left.
SmoothScan(rawPath, obs, startPoint, nextIndex) ==
    IF nextIndex >= Len(rawPath) THEN nextIndex
    ELSE IF ~hasObstacle(obs, startPoint, rawPath[nextIndex + 1])
         THEN SmoothScan(rawPath, obs, startPoint, nextIndex + 1)
         ELSE nextIndex - 1

RECURSIVE SmoothLoop(_, _, _, _)
\* The outer while loop of smoothPath (0-based currentIndex).
SmoothLoop(rawPath, obs, smoothedPath, currentIndex) ==
    IF currentIndex >= Len(rawPath) - 1 THEN smoothedPath
    ELSE LET scanned   == SmoothScan(rawPath, obs, smoothedPath[Len(smoothedPath)], currentIndex + 1)
             nextIndex == IF scanned >= Len(rawPath) THEN Len(rawPath) - 1 ELSE scanned
         IN  IF nextIndex > currentIndex
             THEN SmoothLoop(rawPath, obs, Append(smoothedPath, rawPath[nextIndex + 1]), nextIndex)
             ELSE SmoothLoop(rawPath, obs,
                             IF currentIndex + 1 < Len(rawPath)
                             THEN Append(smoothedPath, rawPath[currentIndex + 2])
                             ELSE smoothedPath,
                             currentIndex + 1)

\* AStar.smoothPath
smoothPath(rawPath, obs) ==
    IF Len(rawPath) <= 2 THEN rawPath
    ELSE SmoothLoop(rawPath, obs, << rawPath[1] >>, 0)

\* What findPath returns: null, or a list of waypoints.
NullPath == [isNull |-> TRUE, pts |-> << >>]
PathOf(points) == [isNull |-> FALSE, pts |-> points]

----------------------------------------------------------------------------
(* The states before init().                                               *)

\* The game before init(): no units, no frame requested.
NoGame == [ units |-> << >>, selectedUnits |-> << >>, projectiles |-> << >>,
            dragStart |-> [isNull |-> TRUE, x |-> 0, y |-> 0], isDragging |-> FALSE,
            unit |-> << >>, formation |-> << >>,
            thrown |-> FALSE, fired |-> << >>, struck |-> << >>, landed |-> << >> ]

NoLoop == [ pc |-> "off", k |-> 0, len |-> 0, deltaTime |-> 0, running |-> FALSE ]

NoHist == [ ticks |-> 0, inputs |-> 0, phases |-> << >>, passComplete |-> FALSE, updated |-> << >>,
            since |-> << >>, gap |-> << >>, blows |-> << >>, impacts |-> << >>, started |-> {},
            command |-> [kind |-> "none", units |-> << >>, target |-> 0, fresh |-> FALSE,
                         x |-> 0, y |-> 0],
            request |-> [unit |-> 0, isNull |-> FALSE, raised |-> FALSE, x |-> 0, y |-> 0] ]

\* No session: the pathfinder is called on its own.
NoScene == [ units |-> << >>, deltaTimes |-> {}, downPoints |-> {}, dragPoints |-> {},
             menuPoints |-> {}, maxTicks |-> 0, maxInputs |-> 0, inputTicks |-> {}, endless |-> FALSE ]

\* The window is not followed: the canvas keeps the size CanvasWidth by
\* CanvasHeight and the grids are the ones computed from it.
NoPage == [ width |-> 0, height |-> 0, gridWidth |-> 0, gridHeight |-> 0,
            obstacles |-> << >>, obstacleSet |-> << >>,
            rows |-> 0, cols |-> 0, compGrid |-> << >>, compCount |-> 0 ]

NoSearch == [ openHeap |-> << >>,
              gScore   |-> [k \in {} |-> <<0, 0>>],
              cameFrom |-> [k \in {} |-> NoKey],
              pushes   |-> [k \in {} |-> 0],
              target   |-> NoKey ]

\* The obstacle sets init() can place: tile-aligned rectangles inside the canvas.
ObstacleSets == { {ObstacleAt(t) : t \in ts} : ts \in { S \in SUBSET Tiles : Cardinality(S) <= MaxObstacles } }

\* Offsets inside a tile of the points a path is asked from: an interior point
\* and a point on the tile's left edge.
StartOffsets == { <<5 * Sub, 27 * Sub>>, <<0, 9 * Sub>> }
\* Offsets inside a tile of the points a path is asked to.
TargetOffsets == { <<20 * Sub, 11 * Sub>>, <<13 * Sub, 0>> }

StartPoints == { Pt(t[1] * TileLen + o[1], t[2] * TileLen + o[2]) : t \in Tiles, o \in StartOffsets }
TargetPoints == { Pt(t[1] * TileLen + o[1], t[2] * TileLen + o[2]) : t \in Tiles, o \in TargetOffsets }
                   \cup { Pt(CanvasWidth + 7 * Sub, 11 * Sub) }

----------------------------------------------------------------------------
(* AStar.findPath as steps: entry, one pass of the while loop, return.     *)

\* Lines 56-96: the early returns, or the A* structures set up.
FindPathEnter ==
    /\ pfState = "call"
    /\ LET startG  == TileOf(query.start)
           targetG == TileOf(query.target)
       IN  IF isBlocked(obstacles, startG[1], startG[2]) \/ isBlocked(obstacles, targetG[1], targetG[2])
           THEN /\ pfResult' = NullPath
                /\ pfState' = "done"
                /\ search' = search
           ELSE IF startG = targetG
           THEN /\ pfResult' = PathOf(<< query.start, TileCenter(targetG) >>)
                /\ pfState' = "done"
                /\ search' = search
           ELSE /\ search' = SearchStart(startG, targetG)
                /\ pfState' = "loop"
                /\ pfResult' = pfResult
    /\ UNCHANGED << obstacles, query >>
    /\ UNCHANGED gameVars

\* Lines 104-165: a pass of the loop whose lowest-f key is not the target.
FindPathExpand ==
    /\ pfState = "loop"
    /\ Len(search.openHeap) > 0
    /\ search.openHeap[BestIndex(search)] # search.target
    /\ search' = Expand(obstacles, search)
    /\ UNCHANGED << obstacles, query, pfState, pfResult >>
    /\ UNCHANGED gameVars

\* Lines 122-126: the lowest-f key is the target.
FindPathReached ==
    /\ pfState = "loop"
    /\ Len(search.openHeap) > 0
    /\ search.openHeap[BestIndex(search)] = search.target
    /\ pfResult' = PathOf(smoothPath(
                      reconstructPath(search.cameFrom, search.target, query.start, query.target),
                      obstacles))
    /\ pfState' = "done"
    /\ UNCHANGED << obstacles, query, search >>
    /\ UNCHANGED gameVars

\* Line 167: the open set ran empty.
FindPathExhausted ==
    /\ pfState = "loop"
    /\ Len(search.openHeap) = 0
    /\ pfResult' = NullPath
    /\ pfState' = "done"
    /\ UNCHANGED << obstacles, query, search >>
    /\ UNCHANGED gameVars

InitPath ==
    /\ obstacles \in ObstacleSets
    /\ query \in [start : StartPoints, target : TargetPoints]
    /\ search = NoSearch
    /\ pfState = "call"
    /\ pfResult = NullPath
    /\ game = NoGame /\ loop = NoLoop /\ hist = NoHist /\ scene = NoScene /\ page = NoPage

NextPath == FindPathEnter \/ FindPathExpand \/ FindPathReached \/ FindPathExhausted

SpecPath == InitPath /\ [][NextPath]_vars

----------------------------------------------------------------------------
(* What the pathfinder claims are stated in: routes on the tile grid and   *)
(* segments against rectangles, defined without the search.                *)

FreeTile(t) == t \in Tiles /\ ObstacleAt(t) \notin obstacles

\* The tiles no obstacle stands on.
FreeTiles == Tiles \ { TileOf(ob) : ob \in obstacles }

\* A step of an obstacle-respecting 8-connected route without corner cutting,
\* free being the free tiles.
LegalStep(free, a, b) ==
    LET dx == b[1] - a[1]
        dy == b[2] - a[2]
    IN  /\ dx \in {-1, 0, 1} /\ dy \in {-1, 0, 1} /\ << dx, dy >> # << 0, 0 >>
        /\ a \in free /\ b \in free
        /\ (dx # 0 /\ dy # 0) => (<< a[1] + dx, a[2] >> \in free /\ << a[1], a[2] + dy >> \in free)

\* The legal steps among the tiles of free, as pairs << from, to >>.
StepsAmong(free) ==
    { p \in { << a, << a[1] + dx, a[2] + dy >> >> : a \in free, dx \in {-1, 0, 1}, dy \in {-1, 0, 1} } :
        LegalStep(free, p[1], p[2]) }

LegalSteps == StepsAmong(FreeTiles)

RECURSIVE ReachFrom(_, _, _)
\* The tiles reached from S, the tiles of new being the ones not yet stepped from.
ReachFrom(S, new, steps) ==
    LET found == { p[2] : p \in { q \in steps : q[1] \in new } } \ S
    IN  IF found = {} THEN S ELSE ReachFrom(S \cup found, found, steps)

RouteExists(a, b) == FreeTile(a) /\ b \in ReachFrom({a}, {a}, LegalSteps)

MinOf(costs) == CHOOSE c \in costs : \A d \in costs : ~CostLess(d, c)

\* The cost of a route to p[1] of cost c, extended by the step p.
Through(c, p) == CostAdd(c, IF p[1][1] = p[2][1] \/ p[1][2] = p[2][2] THEN <<1, 0>> ELSE <<0, 1>>)

RECURSIVE Cheapest(_, _, _)
\* The least route cost to every reachable tile: dist is relaxed along the
\* steps that leave the tiles whose cost has just changed, to a fixed point.
Cheapest(dist, changed, steps) ==
    LET better  == { p \in steps : /\ p[1] \in changed
                                   /\ \/ p[2] \notin DOMAIN dist
                                      \/ CostLess(Through(dist[p[1]], p), dist[p[2]]) }
        targets == { p[2] : p \in better }
        next    == [b \in DOMAIN dist \cup targets |->
                       IF b \in targets
                       THEN MinOf({ Through(dist[p[1]], p) : p \in { q \in better : q[2] = b } })
                       ELSE dist[b]]
    IN  IF better = {} THEN dist ELSE Cheapest(next, targets, steps)

MinRouteCost(a, b) == Cheapest([k \in {a} |-> <<0, 0>>], {a}, LegalSteps)[b]

\* The call returned a route found by the search.
Found == pfState = "done" /\ ~pfResult.isNull /\ search # NoSearch

\* The tile route the search reconstructs, start tile first.
Route == ChainTo(search.cameFrom, search.target)

RouteSteps == 1 .. Len(Route) - 1

IsDiagonal(a, b) == a[1] # b[1] /\ a[2] # b[2]

RouteCost ==
    << Cardinality({ i \in RouteSteps : ~IsDiagonal(Route[i], Route[i + 1]) }),
       Cardinality({ i \in RouteSteps : IsDiagonal(Route[i], Route[i + 1]) }) >>

Min2(a, b) == IF a < b THEN a ELSE b
Max2(a, b) == IF a > b THEN a ELSE b

Cross(p, q, cx, cy) == (q.x - p.x) * (cy - p.y) - (q.y - p.y) * (cx - p.x)

Corners(ob) == { << ob.x, ob.y >>, << ob.x + TileLen, ob.y >>,
                 << ob.x, ob.y + TileLen >>, << ob.x + TileLen, ob.y + TileLen >> }

\* The segment pq has a point in the closed rectangle of the obstacle.
SegmentTouches(p, q, ob) ==
    /\ Max2(Min2(p.x, q.x), ob.x) <= Min2(Max2(p.x, q.x), ob.x + TileLen)
    /\ Max2(Min2(p.y, q.y), ob.y) <= Min2(Max2(p.y, q.y), ob.y + TileLen)
    /\ ~(\A c \in Corners(ob) : Cross(p, q, c[1], c[2]) > 0)
    /\ ~(\A c \in Corners(ob) : Cross(p, q, c[1], c[2]) < 0)

\* The segment pq has a point strictly inside the rectangle of the obstacle.
SegmentCrosses(p, q, ob) ==
    /\ Min2(p.x, q.x) < ob.x + TileLen /\ Max2(p.x, q.x) > ob.x
    /\ Min2(p.y, q.y) < ob.y + TileLen /\ Max2(p.y, q.y) > ob.y
    /\ \/ p = q
       \/ /\ \E c \in Corners(ob) : Cross(p, q, c[1], c[2]) > 0
          /\ \E c \in Corners(ob) : Cross(p, q, c[1], c[2]) < 0

OnObstacle(p) == \E ob \in obstacles : SegmentTouches(p, p, ob)

Returned == pfState = "done" /\ ~pfResult.isNull

Waypoints == pfResult.pts

----------------------------------------------------------------------------
(* Claims about the pathfinder, checked under SpecPath.                    *)

\* C1: findPath returns null exactly when the start tile is blocked, or the
\* target tile is blocked, or no obstacle-respecting 8-connected route without
\* corner cutting joins the two tiles.
C1_NullIffBlockedOrNoRoute ==
    pfState = "done" =>
        (pfResult.isNull <=>
            \/ ~FreeTile(TileOf(query.start))
            \/ ~FreeTile(TileOf(query.target))
            \/ ~RouteExists(TileOf(query.start), TileOf(query.target)))

\* The search ran its open set empty between two free tiles.
C1_Witness ==
    /\ pfState = "done" /\ pfResult.isNull
    /\ FreeTile(TileOf(query.start)) /\ FreeTile(TileOf(query.target))

\* C2: every non-null path starts at the exact start point and ends at the
\* exact requested target point, the same-tile case included.
C2_ExactEndpoints ==
    Returned => /\ Waypoints[1] = query.start
                /\ Waypoints[Len(Waypoints)] = query.target

\* C3: the reconstructed tile route has the least cost (1 per orthogonal step,
\* sqrt(2) per diagonal step) among the legal routes between the two tiles.
C3_RouteCostMinimal ==
    Found => RouteCost = MinRouteCost(TileOf(query.start), TileOf(query.target))

\* A route of at least three steps found around obstacles.
C3_Witness == Found /\ Len(Route) >= 4 /\ obstacles # {}

\* C4: no tile of the found route is blocked, and every diagonal step has both
\* flanking orthogonal tiles unblocked.
C4_NoCornerCut ==
    Found =>
        /\ \A i \in 1 .. Len(Route) : FreeTile(Route[i])
        /\ \A i \in RouteSteps :
              IsDiagonal(Route[i], Route[i + 1]) =>
                  /\ FreeTile(<< Route[i + 1][1], Route[i][2] >>)
                  /\ FreeTile(<< Route[i][1], Route[i + 1][2] >>)

\* A found route with a diagonal step next to an obstacle tile.
C4_Witness ==
    /\ Found
    /\ \E i \in RouteSteps :
          /\ IsDiagonal(Route[i], Route[i + 1])
          /\ \E t \in Tiles : ~FreeTile(t) /\ t[1] \in {Route[i][1] - 1, Route[i][1], Route[i][1] + 1}
                                           /\ t[2] \in {Route[i][2] - 1, Route[i][2], Route[i][2] + 1}

\* C5 as stated: no segment between consecutive waypoints of a returned path
\* intersects or touches the rectangle of any obstacle.
C5_NoSegmentTouches ==
    Returned =>
        \A i \in 1 .. Len(Waypoints) - 1 : \A ob \in obstacles :
            ~SegmentTouches(Waypoints[i], Waypoints[i + 1], ob)

\* C5 as amended: no segment between consecutive waypoints passes through the
\* interior of an obstacle rectangle; and when neither the start point nor the
\* target point lies on an obstacle rectangle's boundary, no segment touches one.
C5_NoSegmentThroughObstacle ==
    Returned =>
        \A i \in 1 .. Len(Waypoints) - 1 : \A ob \in obstacles :
            /\ ~SegmentCrosses(Waypoints[i], Waypoints[i + 1], ob)
            /\ (~OnObstacle(query.start) /\ ~OnObstacle(query.target))
                  => ~SegmentTouches(Waypoints[i], Waypoints[i + 1], ob)

\* A smoothed path that keeps an intermediate waypoint to pass an obstacle.
C5_Witness ==
    /\ Found /\ Len(Waypoints) >= 3 /\ Len(Waypoints) < Len(Route) + 1
    /\ ~OnObstacle(query.start) /\ ~OnObstacle(query.target)

----------------------------------------------------------------------------
(* Numbers of the game: rounded square roots and quotients.                *)

RECURSIVE Newton(_, _)
\* The integer square root of n > 0 by Newton's iteration from x.
Newton(n, x) ==
    LET y == (x + n \div x) \div 2
    IN  IF y >= x THEN x ELSE Newton(n, y)

\* Math.sqrt(n) rounded to the nearest step.
Sqrt(n) ==
    IF n = 0 THEN 0
    ELSE LET r == Newton(n, n) IN IF n - r * r > r THEN r + 1 ELSE r

\* a / b for b > 0, rounded to the nearest step (halves away from zero).
RoundDiv(a, b) ==
    IF a >= 0 THEN (2 * a + b) \div (2 * b) ELSE -((2 * (-a) + b) \div (2 * b))

Abs(v) == IF v < 0 THEN -v ELSE v

Sq(v) == v * v

\* The square of Unit.distanceTo and of the other Math.sqrt(dx*dx + dy*dy).
Dist2(ax, ay, bx, by) == Sq(ax - bx) + Sq(ay - by)

\* (d / dist) * len, where dist = sqrt(d2) > 0.
Along(d, d2, len) == RoundDiv(d * len, Sqrt(d2))

----------------------------------------------------------------------------
(* Program constants of the game (lengths in pixels, times in ms).         *)

\* 0.95, in hundredths.
FORMATION_WAIT_PERCENTAGE == 95
HIT_THRESHOLD == 5
FORMATION_UNIT_DISTANCE == 20
FORMATION_PIECE_DISTANCE == 15
MIN_RANGE_BUFFER == 20
attackAnimationDuration == 300

FORMATION_SPEED_BOOST_RANGE == 10 * TILE_SIZE

\* The statistics the constructors of Knight, Catapult, Archer and Pikeman set,
\* in steps: a moveSpeed of 1.4 is 14 * Sub / 10.  minRange = 0 stands for the
\* property the class does not have.
Stats ==
    [ knight   |-> [ maxHp |-> 120, damage |-> 25, maxRange |-> 40 * Sub, minRange |-> 0,
                     attackSpeed |-> 900, moveSpeed |-> (14 * Sub) \div 10, radius |-> 8 * Sub,
                     formationOrder |-> 1, projectileSize |-> 0, projectileSpeed |-> 0 ],
      catapult |-> [ maxHp |-> 200, damage |-> 50, maxRange |-> 250 * Sub, minRange |-> 50 * Sub,
                     attackSpeed |-> 3000, moveSpeed |-> (5 * Sub) \div 10, radius |-> 10 * Sub,
                     formationOrder |-> 3, projectileSize |-> (25 * Sub) \div 10, projectileSpeed |-> 2 * Sub ],
      archer   |-> [ maxHp |-> 80, damage |-> 15, maxRange |-> 150 * Sub, minRange |-> 0,
                     attackSpeed |-> 1500, moveSpeed |-> (10 * Sub) \div 10, radius |-> 7 * Sub,
                     formationOrder |-> 2, projectileSize |-> (15 * Sub) \div 10, projectileSpeed |-> 4 * Sub ],
      pikeman  |-> [ maxHp |-> 100, damage |-> 18, maxRange |-> 40 * Sub, minRange |-> 0,
                     attackSpeed |-> 1100, moveSpeed |-> (11 * Sub) \div 10, radius |-> (75 * Sub) \div 10,
                     formationOrder |-> 0, projectileSize |-> 0, projectileSpeed |-> 0 ] ]

\* A point-valued property that may be null.
NullPt == [isNull |-> TRUE, x |-> 0, y |-> 0]
SomePt(px, py) == [isNull |-> FALSE, x |-> px, y |-> py]

\* A Unit object as its class constructor leaves it (positions in pixels).
\* Object references (attackTarget, formation) are indices, 0 for null.
NewUnit(type, team, px, py) ==
    [ type |-> type, team |-> team, x |-> px * Sub, y |-> py * Sub, selected |-> FALSE,
      hp |-> Stats[type].maxHp,
      targetX |-> px * Sub, targetY |-> py * Sub,
      attackTarget |-> 0, isAttacking |-> FALSE, attackCooldown |-> 0,
      moving |-> FALSE, formation |-> 0, formationPosition |-> NullPt,
      formationSlot |-> [isNull |-> TRUE, localX |-> 0, localY |-> 0], inFormation |-> FALSE,
      path |-> NullPath, currentPathIndex |-> 0, attackAnimationTime |-> 0,
      nan |-> FALSE ]

----------------------------------------------------------------------------
(* AStar.findPath as one call, for the callers in Unit and Formation: the  *)
(* same entry test, loop pass and return as the steps above.               *)

RECURSIVE SearchLoop(_, _, _, _)
\* The while loop of findPath, lines 104-167.
SearchLoop(obs, s, start, target) ==
    IF Len(s.openHeap) = 0 THEN NullPath
    ELSE IF s.openHeap[BestIndex(s)] = s.target
         THEN PathOf(smoothPath(reconstructPath(s.cameFrom, s.target, start, target), obs))
         ELSE SearchLoop(obs, Expand(obs, s), start, target)

\* AStar.findPath
findPath(obs, startX, startY, targetX, targetY) ==
    LET start   == Pt(startX, startY)
        target  == Pt(targetX, targetY)
        startG  == TileOf(start)
        targetG == TileOf(target)
    IN  IF isBlocked(obs, startG[1], startG[2]) \/ isBlocked(obs, targetG[1], targetG[2])
        THEN NullPath
        ELSE IF startG = targetG THEN PathOf(<< start, TileCenter(targetG) >>)
        ELSE SearchLoop(obs, SearchStart(startG, targetG), start, target)

----------------------------------------------------------------------------
(* Unit.  An operator takes the game g and the index id of the unit and    *)
(* gives the game after the method; g.thrown is set while an uncaught      *)
(* TypeError unwinds, g.fired lists the units whose performAttack ran,     *)
(* g.struck the takeDamage calls made, g.landed the projectiles that       *)
(* reached their impact point.                                             *)

\* A takeDamage that clamps hp but leaves the unit in game.units.
takeDamage_NoSplice(g, id, damage) ==
    [g EXCEPT !.unit[id].hp = IF @ - damage <= 0 THEN 0 ELSE @ - damage,
              !.struck = Append(@, [unit |-> id, damage |-> damage])]

\* A takeDamage that removes the unit while it has 20 hp left.
takeDamage_EarlyDeath(g, id, damage) ==
    LET hp == g.unit[id].hp - damage
    IN  IF hp <= 20
        THEN [g EXCEPT !.unit[id].hp = 0, !.units = SelectSeq(@, LAMBDA e : e # id),
                       !.struck = Append(@, [unit |-> id, damage |-> damage])]
        ELSE [g EXCEPT !.unit[id].hp = hp,
                       !.struck = Append(@, [unit |-> id, damage |-> damage])]

\* Unit.takeDamage: game.units holds an object once, so filtering it out is
\* the splice at its index.
takeDamage(g, id, damage) ==
    LET hp == g.unit[id].hp - damage
    IN  IF hp <= 0
        THEN [g EXCEPT !.unit[id].hp = 0, !.units = SelectSeq(@, LAMBDA e : e # id),
                       !.struck = Append(@, [unit |-> id, damage |-> damage])]
        ELSE [g EXCEPT !.unit[id].hp = hp,
                       !.struck = Append(@, [unit |-> id, damage |-> damage])]

\* new Projectile(...): a shot from the target's own position has dist = 0
\* and a NaN velocity.
NewProjectile(px, py, targetX, targetY, damage, size, speed, shooterUnit, targetUnit, damageType) ==
    LET d2 == Dist2(targetX, targetY, px, py)
    IN  [ x |-> px, y |-> py, damage |-> damage, size |-> size, speed |-> speed,
          targetX |-> targetX, targetY |-> targetY,
          shooterUnit |-> shooterUnit, targetUnit |-> targetUnit, damageType |-> damageType,
          vx |-> IF d2 = 0 THEN 0 ELSE Along(targetX - px, d2, speed),
          vy |-> IF d2 = 0 THEN 0 ELSE Along(targetY - py, d2, speed),
          nan |-> d2 = 0, active |-> TRUE ]

\* performAttack of Unit (knight), Pikeman, Archer and Catapult.
performAttack(g, id) ==
    LET u  == g.unit[id]
        st == Stats[u.type]
        t  == u.attackTarget
        g1 == [g EXCEPT !.unit[id].isAttacking = TRUE,
                        !.unit[id].attackAnimationTime = attackAnimationDuration,
                        !.unit[id].attackCooldown = st.attackSpeed,
                        !.fired = Append(@, id)]
    IN  IF u.type = "knight" THEN takeDamage(g1, t, st.damage)
        ELSE IF u.type = "pikeman"
        THEN takeDamage(g1, t, IF g1.unit[t].type = "knight" THEN (st.damage * 3) \div 2 ELSE st.damage)
        ELSE [g1 EXCEPT !.projectiles =
                 Append(@, NewProjectile(u.x, u.y, g1.unit[t].x, g1.unit[t].y, st.damage,
                                         st.projectileSize, st.projectileSpeed, id, t, u.type))]

\* Unit.checkObstacleCollision for a unit of radius r
checkObstacleCollision(px, py, r) ==
    \E ob \in obstacles :
        /\ px + r > ob.x /\ px - r < ob.x + TileLen
        /\ py + r > ob.y /\ py - r < ob.y + TileLen

\* Lines 662-666 of Unit.setPath, p being what findPath returned: a null path
\* makes line 663 throw, after this.path was assigned.
takePath(g, id, targetX, targetY, p) ==
    IF p.isNull
    THEN [g EXCEPT !.unit[id].path = NullPath, !.thrown = TRUE]
    ELSE [g EXCEPT !.unit[id].path =
                       PathOf([p.pts EXCEPT ![Len(p.pts)] = Pt(targetX, targetY)]),
                   !.unit[id].currentPathIndex = 0,
                   !.unit[id].moving = TRUE]

\* Unit.setPath
setPath(g, id, targetX, targetY) ==
    takePath(g, id, targetX, targetY,
             findPath(obstacles, g.unit[id].x, g.unit[id].y, targetX, targetY))

\* The push one other unit gives (first loop of calculateRepulsion).
UnitPush(g, id, other) ==
    LET u       == g.unit[id]
        o       == g.unit[other]
        d2      == Dist2(u.x, u.y, o.x, o.y)
        minDist == Stats[u.type].radius + Stats[o.type].radius
        dist    == Sqrt(d2)
    IN  IF other = id THEN << 0, 0 >>
        ELSE IF u.formation # 0 /\ o.formation # 0 /\ u.formation = o.formation THEN << 0, 0 >>
        ELSE IF d2 < Sq(minDist) /\ d2 > 0 /\ ~o.isAttacking
        THEN << RoundDiv((u.x - o.x) * (minDist - dist) * Sub, 2 * minDist * dist),
                RoundDiv((u.y - o.y) * (minDist - dist) * Sub, 2 * minDist * dist) >>
        ELSE << 0, 0 >>

RECURSIVE UnitPushes(_, _, _)
UnitPushes(g, id, i) ==
    IF i > Len(g.units) THEN << 0, 0 >>
    ELSE LET a == UnitPush(g, id, g.units[i])
             b == UnitPushes(g, id, i + 1)
         IN  << a[1] + b[1], a[2] + b[2] >>

Clamp(v, lo, hi) == IF v < lo THEN lo ELSE IF v > hi THEN hi ELSE v

\* The push one obstacle gives (second loop of calculateRepulsion): 0.8 is
\* 4/5; a unit whose centre is on the rectangle has dist = 0 and gets NaN.
ObstaclePush(u, ob) ==
    LET dx   == u.x - Clamp(u.x, ob.x, ob.x + TileLen)
        dy   == u.y - Clamp(u.y, ob.y, ob.y + TileLen)
        d2   == Sq(dx) + Sq(dy)
        r    == Stats[u.type].radius
        dist == Sqrt(d2)
    IN  IF d2 < Sq(2 * r)
        THEN IF d2 = 0 THEN [x |-> 0, y |-> 0, nan |-> TRUE]
             ELSE [ x |-> -RoundDiv(dx * (r - dist) * 4 * Sub, 5 * r * dist),
                    y |-> -RoundDiv(dy * (r - dist) * 4 * Sub, 5 * r * dist), nan |-> FALSE ]
        ELSE [x |-> 0, y |-> 0, nan |-> FALSE]

RECURSIVE ObstaclePushes(_, _)
ObstaclePushes(u, obs) ==
    IF obs = {} THEN [x |-> 0, y |-> 0, nan |-> FALSE]
    ELSE LET ob == CHOOSE o \in obs : TRUE
             a  == ObstaclePush(u, ob)
             b  == ObstaclePushes(u, obs \ {ob})
         IN  [x |-> a.x + b.x, y |-> a.y + b.y, nan |-> a.nan \/ b.nan]

\* Unit.calculateRepulsion
calculateRepulsion(g, id) ==
    IF ~g.unit[id].moving THEN [x |-> 0, y |-> 0, nan |-> FALSE]
    ELSE LET a == UnitPushes(g, id, 1)
             b == ObstaclePushes(g.unit[id], obstacles)
         IN  [x |-> a[1] + b.x, y |-> a[2] + b.y, nan |-> b.nan]

----------------------------------------------------------------------------
(* Formation.  g.formation is the list of the Formation objects created;   *)
(* a unit's formation property is an index into it.  allUnits is the array  *)
(* passed to the constructor, which is game.selectedUnits itself: while     *)
(* sharesSelection holds, a push on the selection is a push on allUnits.    *)

\* Formation.rotateLocal: cos and sin of atan2(offsetY, offsetX) are
\* offsetX / dist and offsetY / dist; atan2(0, 0) is 0.
rotateLocal(f, lx, ly) ==
    LET d2 == Sq(f.offsetX) + Sq(f.offsetY)
    IN  IF d2 = 0 THEN Pt(lx, ly)
        ELSE Pt(RoundDiv(lx * f.offsetX - ly * f.offsetY, Sqrt(d2)),
                RoundDiv(lx * f.offsetY + ly * f.offsetX, Sqrt(d2)))

\* Formation.getUnitsPerRow
getUnitsPerRow(totalUnits) ==
    IF totalUnits <= 18 THEN 6 ELSE IF totalUnits <= 30 THEN 10 ELSE 14

\* The units of one formationOrder, in the order of allUnits (unitsByType).
unitsByType(g, all, order) ==
    SelectSeq(all, LAMBDA e : Stats[g.unit[e].type].formationOrder = order)

\* Object.keys(unitsByType) sorted: the orders that have units, ascending.
sortedOrders(g, all) ==
    SelectSeq(<< 0, 1, 2, 3 >>, LAMBDA o : Len(unitsByType(g, all, o)) > 0)

\* rows * FORMATION_UNIT_DISTANCE of a piece of n units.
pieceWidth(n) == CeilDiv(n, getUnitsPerRow(n)) * FORMATION_UNIT_DISTANCE * Sub

RECURSIVE SumWidths(_, _, _, _)
\* The widths of the pieces from index i on, with the gaps between pieces.
SumWidths(g, all, orders, i) ==
    IF i > Len(orders) THEN 0
    ELSE pieceWidth(Len(unitsByType(g, all, orders[i])))
         + (IF i < Len(orders) THEN FORMATION_PIECE_DISTANCE * Sub ELSE 0)
         + SumWidths(g, all, orders, i + 1)

IndexOf(seq, e) == CHOOSE i \in 1 .. Len(seq) : seq[i] = e

\* A createFormationPiece that lays every row of the piece on the first one.
createFormationPiece_OneRow(n, unitIdx, offsetX, unitsPerRow) ==
    LET row        == unitIdx \div unitsPerRow
        i          == unitIdx % unitsPerRow
        unitsInRow == Min2(row * unitsPerRow + unitsPerRow, n) - row * unitsPerRow
        rowWidth   == (unitsInRow - 1) * FORMATION_UNIT_DISTANCE * Sub
    IN  [ isNull |-> FALSE,
          localX |-> offsetX,
          localY |-> -(rowWidth \div 2) + i * FORMATION_UNIT_DISTANCE * Sub ]

\* createFormationPiece: the position pushed for index unitIdx of a piece of n
\* units laid out at offsetX.
createFormationPiece(n, unitIdx, offsetX, unitsPerRow) ==
    LET row        == unitIdx \div unitsPerRow
        i          == unitIdx % unitsPerRow
        unitsInRow == Min2(row * unitsPerRow + unitsPerRow, n) - row * unitsPerRow
        rowWidth   == (unitsInRow - 1) * FORMATION_UNIT_DISTANCE * Sub
    IN  [ isNull |-> FALSE,
          localX |-> offsetX - row * FORMATION_UNIT_DISTANCE * Sub,
          localY |-> -(rowWidth \div 2) + i * FORMATION_UNIT_DISTANCE * Sub ]

\* Lines 846-852: the piece of n units whose front edge is at currentOffsetX.
PieceAt(n, unitIdx, currentOffsetX) ==
    createFormationPiece(n, unitIdx,
                         currentOffsetX - (pieceWidth(n) - FORMATION_UNIT_DISTANCE * Sub) \div 2,
                         getUnitsPerRow(n))

\* A layout that puts the front edge of every piece at the front of the
\* formation.
SlotInPiece_AllAtFront(g, all, e, orders, j, totalWidth) ==
    PieceAt(Len(unitsByType(g, all, orders[j])),
            IndexOf(unitsByType(g, all, orders[j]), e) - 1,
            totalWidth \div 2)

\* The slot of unit e in the piece j of the sorted orders: currentOffsetX is
\* totalWidth / 2 less the pieces and gaps in front of piece j.
SlotInPiece(g, all, e, orders, j, totalWidth) ==
    PieceAt(Len(unitsByType(g, all, orders[j])),
            IndexOf(unitsByType(g, all, orders[j]), e) - 1,
            totalWidth \div 2 - (totalWidth - SumWidths(g, all, orders, j)))

SlotAmong(g, all, e, orders) ==
    SlotInPiece(g, all, e, orders, IndexOf(orders, Stats[g.unit[e].type].formationOrder),
                SumWidths(g, all, orders, 1))

\* The (localX, localY) that assignFormationPositions gives the unit e of allUnits.
SlotOf(g, all, e) == SlotAmong(g, all, e, sortedOrders(g, all))

\* Formation.assignFormationPositions
assignFormationPositions(g, fid) ==
    LET f   == g.formation[fid]
        all == f.allUnits
        placed(e) ==
            LET slot == SlotOf(g, all, e)
                r    == rotateLocal(f, slot.localX, slot.localY)
            IN  [g.unit[e] EXCEPT !.formationSlot = slot,
                                  !.formationPosition = SomePt(f.centerX + r.x, f.centerY + r.y),
                                  !.targetX = f.centerX + r.x,
                                  !.targetY = f.centerY + r.y,
                                  !.moving = TRUE]
    IN  [g EXCEPT !.unit = [e \in DOMAIN g.unit |-> IF InSeq(all, e) THEN placed(e) ELSE g.unit[e]]]

RECURSIVE SumX(_, _, _)
\* The sum of the x of the units from index i on (lines 727-728).
SumX(g, units, i) == IF i > Len(units) THEN 0 ELSE g.unit[units[i]].x + SumX(g, units, i + 1)

RECURSIVE SumY(_, _, _)
SumY(g, units, i) == IF i > Len(units) THEN 0 ELSE g.unit[units[i]].y + SumY(g, units, i + 1)

RECURSIVE MinSpeed(_, _, _)
\* Math.min over the moveSpeed of the units from index i on.
MinSpeed(g, units, i) ==
    LET speed == Stats[g.unit[units[i]].type].moveSpeed
    IN  IF i = Len(units) THEN speed ELSE Min2(speed, MinSpeed(g, units, i + 1))

\* new Formation(units, targetX, targetY)
NewFormation(g, units, targetX, targetY) ==
    LET fid     == Len(g.formation) + 1
        centerX == RoundDiv(SumX(g, units, 1), Len(units))
        centerY == RoundDiv(SumY(g, units, 1), Len(units))
        f == [ allUnits |-> units, sharesSelection |-> TRUE,
               targetX |-> targetX, targetY |-> targetY, isMoving |-> FALSE,
               centerX |-> centerX, centerY |-> centerY,
               centerPath |-> NullPath, currentCenterPathIndex |-> 0,
               offsetX |-> targetX - centerX, offsetY |-> targetY - centerY,
               speed |-> MinSpeed(g, units, 1) ]
        g1 == [g EXCEPT !.formation = Append(@, f),
                        !.unit = [e \in DOMAIN g.unit |->
                                    IF InSeq(units, e)
                                    THEN [g.unit[e] EXCEPT !.formation = fid, !.inFormation = TRUE]
                                    ELSE g.unit[e]]]
    IN  assignFormationPositions(g1, fid)

\* An updateUnitPositions that lays the slots out again around the centre.
updateUnitPositions_NewSlots(g, fid) ==
    LET f == g.formation[fid]
    IN  [g EXCEPT !.unit = [e \in DOMAIN g.unit |->
                              IF InSeq(f.allUnits, e) /\ ~g.unit[e].formationSlot.isNull
                                                      /\ g.unit[e].inFormation
                              THEN [g.unit[e] EXCEPT !.formationSlot.localX = g.unit[e].x - f.centerX,
                                                     !.formationSlot.localY = g.unit[e].y - f.centerY,
                                                     !.targetX = f.centerX, !.targetY = f.centerY,
                                                     !.moving = TRUE]
                              ELSE g.unit[e]]]

\* Formation.updateUnitPositions
updateUnitPositions(g, fid) ==
    LET f == g.formation[fid]
        moved(e) ==
            LET u == g.unit[e]
                r == rotateLocal(f, u.formationSlot.localX, u.formationSlot.localY)
            IN  [u EXCEPT !.targetX = f.centerX + r.x,
                          !.targetY = f.centerY + r.y,
                          !.formationPosition = SomePt(f.centerX + r.x, f.centerY + r.y),
                          !.moving = TRUE]
    IN  [g EXCEPT !.unit = [e \in DOMAIN g.unit |->
                              IF InSeq(f.allUnits, e) /\ ~g.unit[e].formationSlot.isNull
                                                      /\ g.unit[e].inFormation
                              THEN moved(e) ELSE g.unit[e]]]

\* Formation.startMoving
startMoving(g, fid) ==
    LET f == g.formation[fid]
    IN  updateUnitPositions(
            [g EXCEPT !.formation[fid].isMoving = TRUE,
                      !.formation[fid].centerPath =
                          findPath(obstacles, f.centerX, f.centerY, f.targetX, f.targetY),
                      !.formation[fid].currentCenterPathIndex = 0],
            fid)

\* Formation.getActiveUnits
getActiveUnits(g, fid) == SelectSeq(g.formation[fid].allUnits, LAMBDA e : g.unit[e].inFormation)

\* A checkFormationReady that starts the formation with half of the members
\* in position.
checkFormationReady_Half(g, fid) ==
    LET activeUnits == getActiveUnits(g, fid)
        inPosition(e) ==
            LET u == g.unit[e]
            IN  /\ ~u.formationPosition.isNull
                /\ Dist2(u.x, u.y, u.formationPosition.x, u.formationPosition.y) < Sq(10 * Sub)
        unitsInPosition == SelectSeq(activeUnits, inPosition)
    IN  IF Len(activeUnits) = 0 THEN g
        ELSE IF Len(unitsInPosition) * 100 >= Len(activeUnits) * 50
        THEN startMoving(g, fid)
        ELSE g

\* Formation.checkFormationReady
checkFormationReady(g, fid) ==
    LET activeUnits == getActiveUnits(g, fid)
        inPosition(e) ==
            LET u == g.unit[e]
            IN  /\ ~u.formationPosition.isNull
                /\ Dist2(u.x, u.y, u.formationPosition.x, u.formationPosition.y) < Sq(10 * Sub)
        unitsInPosition == SelectSeq(activeUnits, inPosition)
    IN  IF Len(activeUnits) = 0 THEN g
        ELSE IF Len(unitsInPosition) * 100 >= Len(activeUnits) * FORMATION_WAIT_PERCENTAGE
        THEN startMoving(g, fid)
        ELSE g

\* An updateFormationCenter that steps the centroid towards its waypoint and
\* leaves the targets of the members as they were.
updateFormationCenter_StaleTargets(g, fid) ==
    LET f   == g.formation[fid]
        idx == f.currentCenterPathIndex
    IN  IF f.centerPath.isNull \/ idx >= Len(f.centerPath.pts)
        THEN [g EXCEPT !.formation[fid].isMoving = FALSE]
        ELSE
        LET targetWaypoint == f.centerPath.pts[idx + 1]
            dx == targetWaypoint.x - f.centerX
            dy == targetWaypoint.y - f.centerY
            d2 == Sq(dx) + Sq(dy)
        IN  IF d2 <= Sq(2 * Sub)
            THEN [g EXCEPT !.formation[fid].centerX = targetWaypoint.x,
                           !.formation[fid].centerY = targetWaypoint.y,
                           !.formation[fid].currentCenterPathIndex = idx + 1,
                           !.formation[fid].isMoving = idx + 1 < Len(f.centerPath.pts)]
            ELSE [g EXCEPT !.formation[fid].centerX = @ + Along(dx, d2, f.speed),
                           !.formation[fid].centerY = @ + Along(dy, d2, f.speed)]

\* Formation.updateFormationCenter
updateFormationCenter(g, fid) ==
    LET f   == g.formation[fid]
        idx == f.currentCenterPathIndex
    IN  IF f.centerPath.isNull \/ idx >= Len(f.centerPath.pts)
        THEN [g EXCEPT !.formation[fid].isMoving = FALSE]
        ELSE
        LET targetWaypoint  == f.centerPath.pts[idx + 1]
            dx              == targetWaypoint.x - f.centerX
            dy              == targetWaypoint.y - f.centerY
            d2              == Sq(dx) + Sq(dy)
            isFinalWaypoint == idx = Len(f.centerPath.pts) - 1
            newCenterX      == f.centerX + Along(dx, d2, f.speed)
            newCenterY      == f.centerY + Along(dy, d2, f.speed)
            dot             == (targetWaypoint.x - f.centerX) * (targetWaypoint.x - newCenterX)
                               + (targetWaypoint.y - f.centerY) * (targetWaypoint.y - newCenterY)
            snapped == [g EXCEPT !.formation[fid].centerX = targetWaypoint.x,
                                 !.formation[fid].centerY = targetWaypoint.y,
                                 !.formation[fid].currentCenterPathIndex = idx + 1,
                                 !.formation[fid].isMoving = FALSE]
            stepped == [g EXCEPT !.formation[fid].centerX = newCenterX,
                                 !.formation[fid].centerY = newCenterY]
        IN  IF d2 = 0
            THEN updateUnitPositions(
                     [g EXCEPT !.formation[fid].isMoving = IF isFinalWaypoint THEN FALSE ELSE @,
                               !.formation[fid].currentCenterPathIndex = idx + 1], fid)
            ELSE IF isFinalWaypoint
            THEN IF d2 <= Sq(2 * Sub) THEN updateUnitPositions(snapped, fid)
                 ELSE IF dot <= 0 THEN updateUnitPositions(snapped, fid)
                 ELSE updateUnitPositions(stepped, fid)
            ELSE IF d2 < Sq(TileLen \div 2)
            THEN IF idx + 1 >= Len(f.centerPath.pts)
                 THEN [g EXCEPT !.formation[fid].currentCenterPathIndex = idx + 1,
                                !.formation[fid].isMoving = FALSE]
                 ELSE updateUnitPositions(
                          [g EXCEPT !.formation[fid].currentCenterPathIndex = idx + 1], fid)
            ELSE updateUnitPositions(stepped, fid)

----------------------------------------------------------------------------
(* Unit.update and what it calls.                                          *)

\* The waypoint is reached: lines 593-599 and 612-619.
snapTo(g, id, targetWaypoint) ==
    [g EXCEPT !.unit[id].x = targetWaypoint.x,
              !.unit[id].y = targetWaypoint.y,
              !.unit[id].currentPathIndex = @ + 1,
              !.unit[id].moving = FALSE]

\* Lines 607-629 and 649-656: the step to (newX, newY), a re-path when it
\* would collide, the snap when the final waypoint would be overshot.
stepTo(g, id, targetWaypoint, isFinalWaypoint, newX, newY) ==
    LET u   == g.unit[id]
        dot == (targetWaypoint.x - u.x) * (targetWaypoint.x - newX)
               + (targetWaypoint.y - u.y) * (targetWaypoint.y - newY)
    IN  IF checkObstacleCollision(newX, newY, Stats[u.type].radius)
        THEN setPath(g, id, targetWaypoint.x, targetWaypoint.y)
        ELSE IF isFinalWaypoint /\ dot <= 0 THEN snapTo(g, id, targetWaypoint)
        ELSE [g EXCEPT !.unit[id].x = newX, !.unit[id].y = newY]

\* Lines 602-605 and 642-647: the move towards the waypoint plus the
\* repulsion.  A NaN repulsion makes every comparison false and the position NaN.
stepWith(g, id, targetWaypoint, isFinalWaypoint, repulsion) ==
    LET u  == g.unit[id]
        dx == targetWaypoint.x - u.x
        dy == targetWaypoint.y - u.y
        d2 == Sq(dx) + Sq(dy)
    IN  IF repulsion.nan THEN [g EXCEPT !.unit[id].nan = TRUE]
        ELSE stepTo(g, id, targetWaypoint, isFinalWaypoint,
                    u.x + Along(dx, d2, Stats[u.type].moveSpeed) + repulsion.x,
                    u.y + Along(dy, d2, Stats[u.type].moveSpeed) + repulsion.y)

\* Unit.followPath
followPath(g, id) ==
    LET u  == g.unit[id]
    IN  IF u.path.isNull \/ u.currentPathIndex >= Len(u.path.pts)
        THEN [g EXCEPT !.unit[id].moving = FALSE]
        ELSE
        LET targetWaypoint  == u.path.pts[u.currentPathIndex + 1]
            d2              == Dist2(targetWaypoint.x, targetWaypoint.y, u.x, u.y)
            isFinalWaypoint == u.currentPathIndex = Len(u.path.pts) - 1
        IN  IF d2 = 0
            THEN [g EXCEPT !.unit[id].moving = IF isFinalWaypoint THEN FALSE ELSE @,
                           !.unit[id].currentPathIndex = @ + 1]
            ELSE IF isFinalWaypoint /\ d2 <= Sq(2 * Sub) THEN snapTo(g, id, targetWaypoint)
            ELSE IF ~isFinalWaypoint /\ d2 < Sq(TileLen \div 2)
            THEN [g EXCEPT !.unit[id].currentPathIndex = @ + 1,
                           !.unit[id].moving = IF u.currentPathIndex + 1 >= Len(u.path.pts)
                                               THEN FALSE ELSE @]
            ELSE stepWith(g, id, targetWaypoint, isFinalWaypoint, calculateRepulsion(g, id))

\* Lines 426-471 of Unit.update: the movement of a formation member.  The
\* chasing boost 1.5 is 3/2.
moveInFormation(g, id) ==
    LET u  == g.unit[id]
        st == Stats[u.type]
        f  == g.formation[u.formation]
        dx == u.targetX - u.x
        dy == u.targetY - u.y
        d2 == Sq(dx) + Sq(dy)
        formDist2 == Dist2(u.x, u.y, u.formationPosition.x, u.formationPosition.y)
        speed0 == IF f.isMoving THEN f.speed ELSE st.moveSpeed
        currentSpeed ==
            IF /\ ~u.formationPosition.isNull
               /\ formDist2 > Sq(5 * Sub)
               /\ formDist2 < Sq(FORMATION_SPEED_BOOST_RANGE * Sub)
            THEN (speed0 * 3) \div 2 ELSE speed0
        newX == u.x + Along(dx, d2, currentSpeed)
        newY == u.y + Along(dy, d2, currentSpeed)
        stopped == [g EXCEPT !.unit[id].moving = FALSE]
    IN  IF d2 > Sq(2 * Sub) /\ ~checkObstacleCollision(newX, newY, st.radius)
        THEN [g EXCEPT !.unit[id].x = newX, !.unit[id].y = newY]
        ELSE IF ~f.isMoving THEN checkFormationReady(stopped, u.formation)
        ELSE stopped

\* The test of line 377.
MayAttack_IgnoresCooldown(u) == ~u.isAttacking

MayAttack(u) == u.attackCooldown <= 0 /\ ~u.isAttacking

\* The needsNewPath of lines 389-392 and 405-408 for the point (px, py).
needsNewPath(u, px, py) ==
    \/ u.path.isNull
    \/ u.currentPathIndex >= Len(u.path.pts)
    \/ Abs(u.targetX - px) > TileLen \div 2
    \/ Abs(u.targetY - py) > TileLen \div 2

\* The retreat point of lines 381-387: cos and sin of atan2(dy, dx).
retreatPoint(u, tu) ==
    LET dx == u.x - tu.x
        dy == u.y - tu.y
        d2 == Sq(dx) + Sq(dy)
        safeDistance == Stats[u.type].minRange + MIN_RANGE_BUFFER * Sub
    IN  IF d2 = 0 THEN Pt(tu.x + safeDistance, tu.y)
        ELSE Pt(tu.x + Along(dx, d2, safeDistance), tu.y + Along(dy, d2, safeDistance))

\* Lines 389-403 and 405-419: head for the point (px, py).
headFor(g, id, px, py) ==
    LET u == g.unit[id]
    IN  IF needsNewPath(u, px, py)
        THEN LET g1 == [g EXCEPT !.unit[id].targetX = px, !.unit[id].targetY = py]
             IN  IF u.formation = 0 THEN setPath(g1, id, px, py)
                 ELSE [g1 EXCEPT !.unit[id].moving = TRUE]
        ELSE g

\* An engage that attacks its living target at any distance.
engage_AnyDistance(g, id) ==
    LET u == g.unit[id]
        t == u.attackTarget
    IN  IF t = 0 THEN g
        ELSE IF g.unit[t].hp <= 0 THEN [g EXCEPT !.unit[id].attackTarget = 0]
        ELSE IF MayAttack(u)
        THEN performAttack([g EXCEPT !.unit[id].moving = FALSE,
                                     !.unit[id].path = NullPath,
                                     !.unit[id].targetX = u.x,
                                     !.unit[id].targetY = u.y], id)
        ELSE g

\* An engage that turns to the first living unit of another team when its
\* target has died.
engage_NextTarget(g, id) ==
    LET u  == g.unit[id]
        st == Stats[u.type]
        t  == u.attackTarget
        others == SelectSeq(g.units, LAMBDA e : g.unit[e].team # u.team /\ g.unit[e].hp > 0)
    IN  IF t = 0 THEN g
        ELSE IF g.unit[t].hp <= 0
        THEN [g EXCEPT !.unit[id].attackTarget = IF Len(others) > 0 THEN others[1] ELSE 0]
        ELSE
        LET tu       == g.unit[t]
            d2       == Dist2(u.x, u.y, tu.x, tu.y)
            tooClose == st.minRange # 0 /\ d2 < Sq(st.minRange)
            tooFar   == d2 > Sq(st.maxRange)
            halted   == [g EXCEPT !.unit[id].moving = FALSE,
                                  !.unit[id].path = NullPath,
                                  !.unit[id].targetX = u.x,
                                  !.unit[id].targetY = u.y]
            goal     == IF tooClose THEN retreatPoint(u, tu) ELSE Pt(tu.x, tu.y)
        IN  IF ~tooClose /\ ~tooFar
            THEN (IF MayAttack(u) THEN performAttack(halted, id) ELSE halted)
            ELSE headFor(g, id, goal.x, goal.y)

\* Lines 361-423 of Unit.update: the attack target.
engage(g, id) ==
    LET u  == g.unit[id]
        st == Stats[u.type]
        t  == u.attackTarget
    IN  IF t = 0 THEN g
        ELSE IF g.unit[t].hp <= 0 THEN [g EXCEPT !.unit[id].attackTarget = 0]
        ELSE
        LET tu       == g.unit[t]
            d2       == Dist2(u.x, u.y, tu.x, tu.y)
            tooClose == st.minRange # 0 /\ d2 < Sq(st.minRange)
            tooFar   == d2 > Sq(st.maxRange)
            halted   == [g EXCEPT !.unit[id].moving = FALSE,
                                  !.unit[id].path = NullPath,
                                  !.unit[id].targetX = u.x,
                                  !.unit[id].targetY = u.y]
            goal     == IF tooClose THEN retreatPoint(u, tu) ELSE Pt(tu.x, tu.y)
        IN  IF ~tooClose /\ ~tooFar
            THEN (IF MayAttack(u) THEN performAttack(halted, id) ELSE halted)
            ELSE headFor(g, id, goal.x, goal.y)

\* Lines 348-359 of Unit.update: the cooldown and the animation timer.
tickTimers(u, deltaTime) ==
    LET animationTime == u.attackAnimationTime - deltaTime
    IN  [u EXCEPT !.attackCooldown = IF @ > 0 THEN @ - deltaTime ELSE @,
                  !.attackAnimationTime = IF @ > 0 THEN animationTime ELSE @,
                  !.isAttacking = IF u.attackAnimationTime > 0 /\ animationTime <= 0
                                  THEN FALSE ELSE @]

\* Lines 425-478 of Unit.update: movement.
move(g, id) ==
    LET u == g.unit[id]
    IN  IF u.moving /\ ~u.isAttacking
        THEN (IF u.formation # 0 THEN moveInFormation(g, id) ELSE followPath(g, id))
        ELSE [g EXCEPT !.unit[id].moving = FALSE]

\* Lines 425-478 are not reached when setPath threw above them.
moveUnlessThrown(g, id) == IF g.thrown THEN g ELSE move(g, id)

\* Unit.update
update(g, id, deltaTime) ==
    moveUnlessThrown(engage([g EXCEPT !.unit[id] = tickTimers(@, deltaTime)], id), id)

----------------------------------------------------------------------------
(* Projectile.update, getUnitAt and the input handlers.                    *)

RECURSIVE impactAll(_, _, _, _)
\* Lines 1339-1344: game.units.forEach over the units in the impact area.
\* forEach visits index k while k is below both the length it started with
\* and the present length of the array.
impactAll(g, pr, k, len) ==
    IF k >= len \/ k >= Len(g.units) THEN g
    ELSE LET e == g.units[k + 1]
         IN  impactAll(IF /\ Dist2(pr.x, pr.y, g.unit[e].x, g.unit[e].y) < Sq(pr.size * 4)
                          /\ e # pr.shooterUnit
                       THEN takeDamage(g, e, pr.damage) ELSE g,
                       pr, k + 1, len)

\* A strike whose arrow damages its target wherever the target stands.
strike_NoRadiusTest(g, pr) ==
    IF pr.damageType = "catapult" THEN impactAll(g, pr, 0, Len(g.units))
    ELSE takeDamage(g, pr.targetUnit, pr.damage)

\* Lines 1335-1350: the damage of the projectile pr at its impact point.
strike(g, pr) ==
    LET tu == g.unit[pr.targetUnit]
    IN  IF pr.damageType = "catapult" THEN impactAll(g, pr, 0, Len(g.units))
        ELSE IF Dist2(pr.x, pr.y, tu.x, tu.y) < Sq(Stats[tu.type].radius)
        THEN takeDamage(g, pr.targetUnit, pr.damage)
        ELSE g

\* The game gR after the impact of pr on the game g0, with the impact noted:
\* where it was, game.units as the impact found it, the takeDamage calls it made.
impacted(g0, gR, pr) ==
    [gR EXCEPT !.landed =
        Append(@, [ kind |-> pr.damageType, x |-> pr.x, y |-> pr.y, size |-> pr.size,
                    damage |-> pr.damage,
                    shooterUnit |-> pr.shooterUnit, targetUnit |-> pr.targetUnit,
                    units |-> g0.units,
                    struck |-> SubSeq(gR.struck, Len(g0.struck) + 1, Len(gR.struck)) ])]

\* A Projectile.update that aims at the place of the target unit before it
\* moves (a homing projectile).
updateProjectile_Homing(g, i) ==
    LET pr0  == g.projectiles[i]
        tu   == g.unit[pr0.targetUnit]
        d2   == Dist2(tu.x, tu.y, pr0.x, pr0.y)
        pr   == [pr0 EXCEPT !.targetX = tu.x, !.targetY = tu.y,
                            !.vx = IF d2 = 0 THEN 0 ELSE Along(tu.x - pr0.x, d2, pr0.speed),
                            !.vy = IF d2 = 0 THEN 0 ELSE Along(tu.y - pr0.y, d2, pr0.speed)]
        nx   == pr.x + pr.vx
        ny   == pr.y + pr.vy
        out  == nx < 0 \/ nx > CanvasWidth \/ ny < 0 \/ ny > CanvasHeight
        xdif == IF pr.vx < 0 THEN nx - pr.targetX ELSE pr.targetX - nx
        ydif == IF pr.vy < 0 THEN ny - pr.targetY ELSE pr.targetY - ny
        hit  == xdif <= HIT_THRESHOLD * Sub /\ ydif <= HIT_THRESHOLD * Sub
        moved == [pr EXCEPT !.x = nx, !.y = ny, !.active = ~(out \/ hit)]
        g1   == [g EXCEPT !.projectiles[i] = moved]
    IN  IF ~pr.active \/ pr.nan THEN g
        ELSE IF ~hit THEN g1
        ELSE impacted(g1, strike(g1, moved), moved)

\* Projectile.update of the i-th projectile.  With a NaN velocity every
\* comparison is false: the projectile stays as it is.
updateProjectile(g, i) ==
    LET pr   == g.projectiles[i]
        nx   == pr.x + pr.vx
        ny   == pr.y + pr.vy
        out  == nx < 0 \/ nx > CanvasWidth \/ ny < 0 \/ ny > CanvasHeight
        xdif == IF pr.vx < 0 THEN nx - pr.targetX ELSE pr.targetX - nx
        ydif == IF pr.vy < 0 THEN ny - pr.targetY ELSE pr.targetY - ny
        hit  == xdif <= HIT_THRESHOLD * Sub /\ ydif <= HIT_THRESHOLD * Sub
        moved == [pr EXCEPT !.x = nx, !.y = ny, !.active = ~(out \/ hit)]
        g1   == [g EXCEPT !.projectiles[i] = moved]
    IN  IF ~pr.active \/ pr.nan THEN g
        ELSE IF ~hit THEN g1
        ELSE impacted(g1, strike(g1, moved), moved)

RECURSIVE updateProjectiles(_, _)
updateProjectiles(g, i) ==
    IF i > Len(g.projectiles) THEN g ELSE updateProjectiles(updateProjectile(g, i), i + 1)

RECURSIVE FirstAt(_, _, _, _)
FirstAt(g, px, py, i) ==
    IF i > Len(g.units) THEN 0
    ELSE LET u == g.unit[g.units[i]]
         IN  IF Dist2(px, py, u.x, u.y) < Sq(Stats[u.type].radius) THEN g.units[i]
             ELSE FirstAt(g, px, py, i + 1)

\* getUnitAt: the first unit of game.units whose radius covers the point, 0 for null.
getUnitAt(g, px, py) == FirstAt(g, px, py, 1)

\* Lines 1750-1751 and 1787-1788: the selection is emptied by assigning a new
\* array, which no Formation shares.
clearSelection(g) ==
    [g EXCEPT !.unit = [e \in DOMAIN g.unit |->
                           IF InSeq(g.selectedUnits, e) THEN [g.unit[e] EXCEPT !.selected = FALSE]
                           ELSE g.unit[e]],
              !.selectedUnits = << >>,
              !.formation = [i \in DOMAIN g.formation |->
                                [g.formation[i] EXCEPT !.sharesSelection = FALSE]]]

\* Lines 1756-1759 and 1794-1797: select the unit unless it is selected already.
select(g, e) ==
    IF g.unit[e].selected THEN g
    ELSE [g EXCEPT !.unit[e].selected = TRUE,
                   !.selectedUnits = Append(@, e),
                   !.formation = [i \in DOMAIN g.formation |->
                                     IF g.formation[i].sharesSelection
                                     THEN [g.formation[i] EXCEPT !.allUnits = Append(@, e)]
                                     ELSE g.formation[i]]]

\* The mousedown handler (left button).
mousedown(g, px, py, shiftKey) ==
    LET clickedUnit == getUnitAt(g, px, py)
        g1 == [g EXCEPT !.dragStart = SomePt(px, py), !.isDragging = FALSE]
        g2 == IF clickedUnit # 0 /\ ~shiftKey THEN clearSelection(g1) ELSE g1
    IN  IF clickedUnit # 0 THEN select(g2, clickedUnit) ELSE g2

\* The mousemove handler (mousePos is read by the drawing code only).
mousemove(g, px, py) ==
    IF /\ ~g.dragStart.isNull /\ ~g.isDragging
       /\ Dist2(px, py, g.dragStart.x, g.dragStart.y) > Sq(5 * Sub)
    THEN [g EXCEPT !.isDragging = TRUE] ELSE g

RECURSIVE selectInside(_, _, _, _, _, _, _)
\* Lines 1790-1799: game.units.forEach over the units inside the rectangle.
selectInside(g, rx, ry, width, height, k, len) ==
    IF k >= len \/ k >= Len(g.units) THEN g
    ELSE LET e == g.units[k + 1]
             u == g.unit[e]
         IN  selectInside(IF u.x > rx /\ u.x < rx + width /\ u.y > ry /\ u.y < ry + height
                          THEN select(g, e) ELSE g,
                          rx, ry, width, height, k + 1, len)

\* The mouseup handler (left button).
mouseup(g, px, py, shiftKey) ==
    LET g1 == IF shiftKey THEN g ELSE clearSelection(g)
        g2 == IF g.isDragging
              THEN selectInside(g1, Min2(g.dragStart.x, px), Min2(g.dragStart.y, py),
                                Abs(px - g.dragStart.x), Abs(py - g.dragStart.y), 0, Len(g1.units))
              ELSE g
    IN  [g2 EXCEPT !.dragStart = NullPt, !.isDragging = FALSE]

\* Lines 1828-1829, unless setPath threw on line 1827.
released(g, id) ==
    IF g.thrown THEN g
    ELSE [g EXCEPT !.unit[id].attackTarget = 0, !.unit[id].formation = 0]

\* The contextmenu handler: attack command, group move or single move.  A
\* throw in setPath ends the handler before lines 1828-1829.
contextmenu(g, px, py) ==
    LET targetUnit == getUnitAt(g, px, py)
        first      == g.selectedUnits[1]
    IN  IF Len(g.selectedUnits) = 0 THEN g
        ELSE IF targetUnit # 0 /\ g.unit[targetUnit].team # 1
        THEN [g EXCEPT !.unit = [e \in DOMAIN g.unit |->
                                    IF InSeq(g.selectedUnits, e)
                                    THEN [g.unit[e] EXCEPT !.attackTarget = targetUnit,
                                                           !.formation = 0,
                                                           !.formationPosition = NullPt]
                                    ELSE g.unit[e]]]
        ELSE IF Len(g.selectedUnits) > 1 THEN NewFormation(g, g.selectedUnits, px, py)
        ELSE released(setPath(g, first, px, py), first)

\* The keydown handler for 's'.
keydownStop(g) ==
    [g EXCEPT !.unit = [e \in DOMAIN g.unit |->
                           IF InSeq(g.selectedUnits, e)
                           THEN [g.unit[e] EXCEPT !.targetX = g.unit[e].x,
                                                  !.targetY = g.unit[e].y,
                                                  !.moving = FALSE,
                                                  !.attackTarget = 0,
                                                  !.formation = 0]
                           ELSE g.unit[e]]]

----------------------------------------------------------------------------
(* The game: init(), the frame loop as steps, the input events.            *)

\* A frame is followed up to this many times, an input event this many times.
MaxTicks == 6
MaxInputs == 3

\* The frame lengths (ms) a tick is given.
DeltaTimes == { 200, 500 }

\* The obstacle of the playfield: the tile in the top right corner.
GameObstacles == { ObstacleAt(<< gridWidth - 1, 0 >>) }

\* The units of the playfield: an archer of team 2 with a pikeman and a knight
\* of team 1 in melee range of it, in the order of game.units.
GameUnits == << NewUnit("archer", 2, 48, 48), NewUnit("pikeman", 1, 30, 48), NewUnit("knight", 1, 48, 70) >>

\* The game after init().
GameOf(units) == [ NoGame EXCEPT !.units = [i \in 1 .. Len(units) |-> i], !.unit = units ]

NewGame == GameOf(GameUnits)

\* Nothing has happened yet to the units.
HistOf(units) ==
    [NoHist EXCEPT !.updated = [e \in DOMAIN units |-> 0],
                   !.since = [e \in DOMAIN units |-> -1],
                   !.gap = [e \in DOMAIN units |-> -1],
                   !.blows = [e \in DOMAIN units |-> << >>]]

Px(px, py) == Pt(px * Sub, py * Sub)

\* Where the left button goes down: on each unit, and on empty ground.
DownPoints == { Px(48, 48), Px(30, 48), Px(48, 70), Px(2, 40) }
\* Where the mouse is dragged to and released.
DragPoints == { Px(60, 90) }
\* Where the right button is clicked: on the enemy archer, on free ground and
\* on the obstacle.
MenuPoints == { Px(48, 48), Px(16, 16), Px(CanvasWidth \div Sub - 16, 16) }

\* The skirmish: the three units, frames of either length and input events
\* before and after any frame.
Skirmish ==
    [ units |-> GameUnits, deltaTimes |-> DeltaTimes, downPoints |-> DownPoints,
      dragPoints |-> DragPoints, menuPoints |-> MenuPoints,
      maxTicks |-> MaxTicks, maxInputs |-> MaxInputs, inputTicks |-> 0 .. MaxTicks,
      endless |-> FALSE ]

\* The order of the update phases in gameLoop, lines 1865, 1868-1878 and
\* 1881-1884; after the last one the frame is drawn and the next is requested.
PhaseAfter_ProjectilesFirst(phase) ==
    CASE phase = "units" -> "projectiles"
      [] phase = "projectiles" -> "formations"
      [] phase = "formations" -> "idle"

PhaseAfter(phase) ==
    CASE phase = "units" -> "formations"
      [] phase = "formations" -> "projectiles"
      [] phase = "projectiles" -> "idle"

\* The game as it is stored between steps: no exception unwinding.
Settled(g) == [g EXCEPT !.thrown = FALSE, !.fired = << >>, !.struck = << >>, !.landed = << >>]

\* The takeDamage calls of struck on unit e, as blows: melee when performAttack
\* made them, not melee when a projectile did.
BlowsOn(struck, e, melee) ==
    LET on == SelectSeq(struck, LAMBDA s : s.unit = e)
    IN  [i \in 1 .. Len(on) |-> [damage |-> on[i].damage, melee |-> melee]]

NoRequest == [unit |-> 0, isNull |-> FALSE, raised |-> FALSE, x |-> 0, y |-> 0]

\* The history after the step in which unit id ran code on game g0 and left gR.
Noted(h, id, g0, gR) ==
    [h EXCEPT !.blows = [e \in DOMAIN @ |-> @[e] \o BlowsOn(gR.struck, e, TRUE)],
              !.started = @ \cup { f \in DOMAIN gR.formation : gR.formation[f].isMoving },
              !.since = [e \in DOMAIN @ |-> IF InSeq(gR.fired, e) THEN 0 ELSE @[e]],
              !.gap = [e \in DOMAIN @ |-> IF InSeq(gR.fired, e) THEN h.since[e] ELSE @[e]],
              !.request = IF id # 0 /\ gR.unit[id].path.isNull /\ gR.thrown
                          THEN [unit |-> id, isNull |-> TRUE, raised |-> gR.thrown,
                                x |-> g0.unit[id].x, y |-> g0.unit[id].y]
                          ELSE NoRequest]

\* The command the contextmenu handler gives on game g with targetUnit under
\* the pointer at (px, py) (lines 1810-1820): none without a selection, else
\* attack or move to the point.
Commanded(command, g, targetUnit, px, py) ==
    IF Len(g.selectedUnits) = 0 THEN command
    ELSE IF targetUnit # 0 /\ g.unit[targetUnit].team # 1
    THEN [kind |-> "attack", units |-> g.selectedUnits, target |-> targetUnit, fresh |-> TRUE,
          x |-> 0, y |-> 0]
    ELSE [kind |-> "move", units |-> g.selectedUnits, target |-> 0, fresh |-> TRUE,
          x |-> px, y |-> py]

\* An endless session is followed while the list of projectiles holds at
\* most this many.
MaxFlying == 3

\* gameLoop, lines 1860-1865: the frame starts and the forEach over
\* game.units takes the length of the array.  An endless session has frames
\* without end, counted up to maxTicks; the time since an attack is counted up
\* to the longest attackSpeed.
GameLoopBegin ==
    /\ loop.pc = "idle" /\ loop.running
    /\ hist.ticks < scene.maxTicks \/ (scene.endless /\ Len(game.projectiles) <= MaxFlying)
    /\ \E deltaTime \in scene.deltaTimes :
        /\ loop' = [loop EXCEPT !.pc = "units", !.k = 0, !.len = Len(game.units),
                                !.deltaTime = deltaTime]
        /\ hist' = [hist EXCEPT !.ticks = Min2(@ + 1, scene.maxTicks),
                                !.command.fresh = FALSE,
                                !.phases = << "units" >>,
                                !.passComplete = FALSE,
                                !.updated = [e \in DOMAIN @ |-> 0],
                                !.since = [e \in DOMAIN @ |->
                                             IF @[e] < 0 THEN @[e]
                                             ELSE Min2(@[e] + deltaTime,
                                                       Stats["catapult"].attackSpeed)],
                                !.impacts = << >>,
                                !.request = NoRequest]
    /\ UNCHANGED << game, pathVars, scene, page >>

\* Line 1865: the callback of forEach for index k.  An exception leaves
\* gameLoop before requestAnimationFrame: no further frame runs.
UnitUpdate ==
    /\ loop.pc = "units"
    /\ loop.k < loop.len /\ loop.k < Len(game.units)
    /\ LET id == game.units[loop.k + 1]
           gR == update(game, id, loop.deltaTime)
       IN  /\ game' = Settled(gR)
           /\ loop' = IF gR.thrown THEN [loop EXCEPT !.pc = "idle", !.running = FALSE]
                      ELSE [loop EXCEPT !.k = @ + 1]
           /\ hist' = [Noted(hist, id, game, gR) EXCEPT !.updated[id] = @ + 1]
    /\ UNCHANGED << pathVars, scene, page >>

\* Line 1865: forEach has no index left to visit.
UnitPassEnd ==
    /\ loop.pc = "units"
    /\ ~(loop.k < loop.len /\ loop.k < Len(game.units))
    /\ loop' = [loop EXCEPT !.pc = PhaseAfter("units")]
    /\ hist' = [hist EXCEPT !.passComplete = TRUE, !.request = NoRequest]
    /\ UNCHANGED << game, pathVars, scene, page >>

RECURSIVE formationsOf(_, _, _)
\* Lines 1868-1873: the Set of the formations of the units of game.units, in
\* insertion order.
formationsOf(g, i, found) ==
    IF i > Len(g.units) THEN found
    ELSE LET f == g.unit[g.units[i]].formation
         IN  formationsOf(g, i + 1, IF f # 0 /\ ~InSeq(found, f) THEN Append(found, f) ELSE found)

RECURSIVE updateFormations(_, _, _)
\* Lines 1874-1878
updateFormations(g, formations, i) ==
    IF i > Len(formations) THEN g
    ELSE updateFormations(IF g.formation[formations[i]].isMoving
                          THEN updateFormationCenter(g, formations[i]) ELSE g,
                          formations, i + 1)

\* gameLoop, lines 1868-1878
UpdateFormations ==
    /\ loop.pc = "formations"
    /\ game' = updateFormations(game, formationsOf(game, 1, << >>), 1)
    /\ loop' = [loop EXCEPT !.pc = PhaseAfter("formations")]
    /\ hist' = [hist EXCEPT !.phases = Append(@, "formations")]
    /\ UNCHANGED << pathVars, scene, page >>

\* gameLoop, lines 1881-1884
UpdateProjectiles ==
    /\ loop.pc = "projectiles"
    /\ LET gR == updateProjectiles(game, 1)
       IN  /\ game' = [Settled(gR) EXCEPT !.projectiles = SelectSeq(@, LAMBDA pr : pr.active)]
           /\ hist' = [hist EXCEPT !.phases = Append(@, "projectiles"),
                                   !.impacts = gR.landed,
                                   !.blows = [e \in DOMAIN @ |->
                                                 @[e] \o BlowsOn(gR.struck, e, FALSE)]]
    /\ loop' = [loop EXCEPT !.pc = PhaseAfter("projectiles")]
    /\ UNCHANGED << pathVars, scene, page >>

\* An input event is handled between two frames; a session has its input
\* events after the frames counted in inputTicks.
InputReady ==
    /\ loop.pc = "idle" /\ hist.inputs < scene.maxInputs
    /\ hist.ticks \in scene.inputTicks

MouseDown ==
    /\ InputReady
    /\ \E p \in scene.downPoints, shiftKey \in BOOLEAN : game' = mousedown(game, p.x, p.y, shiftKey)
    /\ hist' = [hist EXCEPT !.inputs = @ + 1, !.request = NoRequest]
    /\ UNCHANGED << loop, pathVars, scene, page >>

MouseMove ==
    /\ InputReady
    /\ \E p \in scene.dragPoints : game' = mousemove(game, p.x, p.y)
    /\ hist' = [hist EXCEPT !.inputs = @ + 1, !.request = NoRequest]
    /\ UNCHANGED << loop, pathVars, scene, page >>

MouseUp ==
    /\ InputReady
    /\ \E p \in scene.dragPoints, shiftKey \in BOOLEAN : game' = mouseup(game, p.x, p.y, shiftKey)
    /\ hist' = [hist EXCEPT !.inputs = @ + 1, !.request = NoRequest]
    /\ UNCHANGED << loop, pathVars, scene, page >>

ContextMenu ==
    /\ InputReady
    /\ \E p \in scene.menuPoints :
          LET gR == contextmenu(game, p.x, p.y)
              id == IF gR.thrown THEN game.selectedUnits[1] ELSE 0
          IN  /\ game' = Settled(gR)
              /\ hist' = [Noted(hist, id, game, gR) EXCEPT
                              !.inputs = @ + 1,
                              !.command = Commanded(@, game, getUnitAt(game, p.x, p.y), p.x, p.y)]
    /\ UNCHANGED << loop, pathVars, scene, page >>

KeyDown ==
    /\ InputReady
    /\ game' = keydownStop(game)
    /\ hist' = [hist EXCEPT !.inputs = @ + 1, !.request = NoRequest,
                            !.command = IF Len(game.selectedUnits) = 0 THEN @
                                        ELSE [kind |-> "stop", units |-> game.selectedUnits,
                                              target |-> 0, fresh |-> TRUE,
                                              x |-> 0, y |-> 0]]
    /\ UNCHANGED << loop, pathVars, scene, page >>

\* The state after init() in the session sc on a playfield with the obstacles obs.
StartIn(sc, obs) ==
    /\ obstacles = obs
    /\ query = [start |-> Pt(0, 0), target |-> Pt(0, 0)]
    /\ search = NoSearch
    /\ pfState = "done"
    /\ pfResult = NullPath
    /\ game = GameOf(sc.units)
    /\ loop = [NoLoop EXCEPT !.pc = "idle", !.running = TRUE]
    /\ hist = HistOf(sc.units)
    /\ scene = sc
    /\ page = NoPage

Init == StartIn(Skirmish, GameObstacles)

Next ==
    \/ GameLoopBegin \/ UnitUpdate \/ UnitPassEnd \/ UpdateFormations \/ UpdateProjectiles
    \/ MouseDown \/ MouseMove \/ MouseUp \/ ContextMenu \/ KeyDown

Spec == Init /\ [][Next]_vars

\* gameLoop asks for the next frame with requestAnimationFrame (line 1960) at
\* the end of every frame that did not throw, and a frame begun runs on: a
\* step of a frame is due.  The steps of a frame are the steps that change
\* loop, and each of them does.
FrameDue ==
    /\ loop.running
    /\ \/ loop.pc # "idle"
       \/ hist.ticks < scene.maxTicks
       \/ scene.endless /\ Len(game.projectiles) <= MaxFlying
    /\ loop' \in [ pc : { "idle", "units", "formations", "projectiles" },
                   k : 0 .. Len(scene.units), len : 0 .. Len(scene.units),
                   deltaTime : scene.deltaTimes \cup { 0 }, running : BOOLEAN ]

\* No unit stands with its centre on an obstacle rectangle when it moves, so
\* no position is NaN.
PositionsAreNumbers == \A e \in DOMAIN game.unit : ~game.unit[e].nan

----------------------------------------------------------------------------
(* Claims about the game, checked under Spec.                              *)

Live(e) == InSeq(game.units, e)

\* C6: when the pathfinder returns null for the destination of a command, the
\* command raises no error and leaves the unit where it was, not moving.
C6_NullPathLeavesUnitStationary ==
    hist.request.isNull =>
        /\ ~hist.request.raised
        /\ game.unit[hist.request.unit].x = hist.request.x
        /\ game.unit[hist.request.unit].y = hist.request.y
        /\ ~game.unit[hist.request.unit].moving

FrameOrderAsStated == << "units", "projectiles", "formations" >>

FrameOrder == << "units", "formations", "projectiles" >>

IsPrefix(a, b) == Len(a) <= Len(b) /\ a = SubSeq(b, 1, Len(a))

\* C7 as stated: in every tick the phases run in the order units, projectiles,
\* formations.
C7_UnitsProjectilesFormations == IsPrefix(hist.phases, FrameOrderAsStated)

\* C7 as amended: in every tick the phases run in the order units, formations,
\* projectiles.
C7_UnitsFormationsProjectiles == IsPrefix(hist.phases, FrameOrder)

\* A frame ran all three phases with a formation to advance.
C7_Witness ==
    /\ hist.phases = FrameOrder /\ loop.pc = "idle"
    /\ \E e \in DOMAIN game.unit : Live(e) /\ game.unit[e].formation # 0

\* C8: when the unit pass of a tick is over, every unit of the live list has
\* been updated exactly once in it, whatever was removed during the pass.
C8_EveryLiveUnitUpdatedOnce ==
    hist.passComplete => \A e \in DOMAIN game.unit : Live(e) => hist.updated[e] = 1

\* C9: every unit has 0 <= hp <= maxHp, and a unit of game.units has hp > 0.
C9_HpInRangeAndLiveUnitsAlive ==
    \A e \in DOMAIN game.unit :
        /\ 0 <= game.unit[e].hp /\ game.unit[e].hp <= Stats[game.unit[e].type].maxHp
        /\ Live(e) => game.unit[e].hp > 0

\* A unit was killed: its hp is 0 and it has left game.units, while another
\* unit is still in the list.
C9_Witness ==
    /\ \E e \in DOMAIN game.unit : game.unit[e].hp = 0 /\ ~Live(e)
    /\ \E e \in DOMAIN game.unit : Live(e)

\* C10: the deltaTime summed over the ticks between two consecutive
\* performAttack calls of a unit is at least its attackSpeed.
C10_AttacksAtLeastAttackSpeedApart ==
    \A e \in DOMAIN game.unit :
        hist.gap[e] >= 0 => hist.gap[e] >= Stats[game.unit[e].type].attackSpeed

\* Two units have each attacked a second time.
C10_Witness ==
    \E a, b \in DOMAIN game.unit : a # b /\ hist.gap[a] >= 0 /\ hist.gap[b] >= 0

----------------------------------------------------------------------------
(* The duel: a knight and a pikeman of team 1 within melee range of a      *)
(* knight of team 2; the commands are given before the first frame.        *)

MaxDuelTicks == 6
MaxDuelInputs == 3

Duel ==
    [ units |-> << NewUnit("knight", 2, 50, 48), NewUnit("knight", 1, 20, 48),
                   NewUnit("pikeman", 1, 50, 78) >>,
      deltaTimes |-> { 500, 1000 },
      downPoints |-> { Px(20, 48), Px(50, 78) }, dragPoints |-> { Px(60, 90) },
      menuPoints |-> { Px(50, 48) },
      maxTicks |-> MaxDuelTicks, maxInputs |-> MaxDuelInputs, inputTicks |-> { 0 },
      endless |-> FALSE ]

SpecDuel == StartIn(Duel, GameObstacles) /\ [][Next]_vars

\* The blows unit e has received are all landed melee attacks of one damage.
OnlyMeleeOfOneDamage(e) ==
    /\ Len(hist.blows[e]) > 0
    /\ \A i \in 1 .. Len(hist.blows[e]) :
           hist.blows[e][i].melee /\ hist.blows[e][i].damage = hist.blows[e][1].damage

\* C11: a target of hp H that has received only landed melee attacks of
\* damage D is in game.units before the ceil(H / D)-th of them and out of it
\* from that one on, which is the last it receives.
C11_RemovedAtCeilingOfHpOverDamage ==
    \A e \in DOMAIN game.unit :
        OnlyMeleeOfOneDamage(e) =>
            LET n    == Len(hist.blows[e])
                last == CeilDiv(Stats[game.unit[e].type].maxHp, hist.blows[e][1].damage)
            IN  IF Live(e) THEN n < last ELSE n = last

\* The knight of 120 hp has left game.units at the fifth blow of 25.
C11_Witness ==
    \E e \in DOMAIN game.unit :
        /\ OnlyMeleeOfOneDamage(e) /\ ~Live(e)
        /\ Stats[game.unit[e].type].maxHp = 120
        /\ hist.blows[e][1].damage = 25 /\ Len(hist.blows[e]) = 5

----------------------------------------------------------------------------
(* The range: two archers of team 1 on either side of a knight of team 2,  *)
(* which can be sent walking away from one and towards the other while     *)
(* their arrows fly.                                                       *)

MaxRangeTicks == 4
MaxRangeInputs == 5

Range ==
    [ units |-> << NewUnit("archer", 1, 30, 48), NewUnit("archer", 1, 70, 48),
                   NewUnit("knight", 2, 50, 48) >>,
      deltaTimes |-> { 500, 1000 },
      downPoints |-> { Px(30, 48), Px(70, 48), Px(50, 48) }, dragPoints |-> { Px(60, 90) },
      menuPoints |-> { Px(50, 48), Px(90, 48) },
      maxTicks |-> MaxRangeTicks, maxInputs |-> MaxRangeInputs, inputTicks |-> { 0 },
      endless |-> FALSE ]

SpecRange == StartIn(Range, GameObstacles) /\ [][Next]_vars

\* The impacts of the projectile phase just run, while the units stand where
\* the impacts found them.
Impacts == { hist.impacts[k] : k \in 1 .. Len(hist.impacts) }

\* The target of the impact im stands within its own radius of the impact point.
TargetWithinRadius(im) ==
    LET tu == game.unit[im.targetUnit]
    IN  Dist2(im.x, im.y, tu.x, tu.y) < Sq(Stats[tu.type].radius)

\* C12: a single-target projectile that reaches its impact point damages
\* nothing but its target, and that only if the target then stands within
\* its own radius of the impact point; otherwise no unit is damaged.
C12_ArrowDamagesOnlyTargetWithinRadius ==
    \A im \in Impacts :
        im.kind # "catapult" =>
            /\ \A k \in 1 .. Len(im.struck) : im.struck[k].unit = im.targetUnit
            /\ Len(im.struck) > 0 => TargetWithinRadius(im)

\* In one projectile phase an arrow damaged the target standing within its
\* radius of the impact point, and another arrow, whose target had walked out
\* of that distance, damaged nothing.
C12_Witness ==
    \E hit, miss \in Impacts :
        /\ hit.kind = "archer" /\ Len(hit.struck) = 1 /\ TargetWithinRadius(hit)
        /\ miss.kind = "archer" /\ Len(miss.struck) = 0 /\ ~TargetWithinRadius(miss)
        /\ Live(miss.targetUnit)

----------------------------------------------------------------------------
(* The siege: a catapult of team 1 and two archers of team 2 that stand    *)
(* next to each other in range of it; frames of one second.                *)

MaxSiegeTicks == 28
MaxSiegeInputs == 2

Siege ==
    [ units |-> << NewUnit("catapult", 1, 10, 48), NewUnit("archer", 2, 63, 48),
                   NewUnit("archer", 2, 49, 48) >>,
      deltaTimes |-> { 1000 },
      downPoints |-> { Px(10, 48), Px(63, 48) }, dragPoints |-> { Px(60, 90) },
      menuPoints |-> { Px(63, 48) },
      maxTicks |-> MaxSiegeTicks, maxInputs |-> MaxSiegeInputs, inputTicks |-> { 0 },
      endless |-> FALSE ]

SpecSiege == StartIn(Siege, GameObstacles) /\ [][Next]_vars

\* The units that were in game.units when the impact im began, stand within
\* its radius (4 times the projectile size) and are not the shooter.
InImpactArea(im) ==
    { e \in DOMAIN game.unit :
        /\ InSeq(im.units, e) /\ e # im.shooterUnit
        /\ Dist2(im.x, im.y, game.unit[e].x, game.unit[e].y) < Sq(4 * im.size) }

\* The number of takeDamage calls the impact im made on unit e.
TimesStruck(im, e) == Len(SelectSeq(im.struck, LAMBDA s : s.unit = e))

\* C13: at the impact of an area projectile every live unit other than the
\* shooter within the impact radius is damaged exactly once, of either team,
\* also when units die of the same impact.
C13_EveryUnitInAreaDamagedOnce ==
    \A im \in Impacts :
        im.kind = "catapult" =>
            \A e \in DOMAIN game.unit :
                TimesStruck(im, e) = (IF e \in InImpactArea(im) THEN 1 ELSE 0)

----------------------------------------------------------------------------
(* The drill: a knight and a pikeman of team 1 that can be sent off as a   *)
(* formation, and an archer of team 2 to attack; commands are given before *)
(* the first frame and again after some frames.                            *)

MaxDrillTicks == 10
MaxDrillInputs == 5
DrillLateTick == 8

Drill ==
    [ units |-> << NewUnit("knight", 1, 22, 60), NewUnit("pikeman", 1, 58, 60),
                   NewUnit("archer", 2, 80, 80) >>,
      deltaTimes |-> { 500 },
      downPoints |-> { Px(22, 60), Px(58, 60) }, dragPoints |-> { Px(60, 90) },
      menuPoints |-> { Px(80, 80), Px(90, 60) },
      maxTicks |-> MaxDrillTicks, maxInputs |-> MaxDrillInputs,
      inputTicks |-> { 0, DrillLateTick }, endless |-> FALSE ]

SpecDrill == StartIn(Drill, GameObstacles) /\ [][Next]_vars

\* The units the constructor of formation f was given, as far as they have a slot.
Members(f) ==
    { e \in DOMAIN game.unit :
        InSeq(game.formation[f].allUnits, e) /\ ~game.unit[e].formationSlot.isNull }

\* The members of formation f flagged inFormation that stand within the
\* position tolerance of 10 px of their formationPosition.
InPosition(f) ==
    { e \in DOMAIN game.unit :
        /\ InSeq(game.formation[f].allUnits, e) /\ game.unit[e].inFormation
        /\ ~game.unit[e].formationPosition.isNull
        /\ Dist2(game.unit[e].x, game.unit[e].y, game.unit[e].formationPosition.x,
                 game.unit[e].formationPosition.y) < Sq(10 * Sub) }

\* ceil(N * FORMATION_WAIT_PERCENTAGE) for the N members flagged inFormation.
Quorum(f) == CeilDiv(Len(getActiveUnits(game, f)) * FORMATION_WAIT_PERCENTAGE, 100)

C15_StartsAtFirstMomentOfQuorum ==
    \A f \in DOMAIN game.formation :
        (loop.pc = "idle" /\ hist.ticks > 0 /\ f \notin hist.started /\ Quorum(f) > 0) =>
            Cardinality(InPosition(f)) < Quorum(f)

\* C15 as amended: a formation begins moving only in the update of one of its
\* units (the readiness check made when the unit stops), and only with at least
\* ceil(N * FORMATION_WAIT_PERCENTAGE) members in position, never with fewer.
C15_StartsOnlyWithQuorum ==
    [][ \A f \in DOMAIN game.formation :
            (~game.formation[f].isMoving /\ game'.formation[f].isMoving) =>
                /\ loop.pc = "units"
                /\ game.unit[game.units[loop.k + 1]].formation = f
                /\ Cardinality(InPosition(f)') >= Quorum(f)' ]_vars

\* A formation of two has just begun to move in the unit pass of a frame
\* later than the first, with both members in position.
C15_Witness ==
    \E f \in DOMAIN game.formation :
        /\ loop.pc = "units" /\ hist.ticks > 1 /\ game.formation[f].isMoving
        /\ game.formation[f].currentCenterPathIndex = 0
        /\ Quorum(f) = 2 /\ Cardinality(InPosition(f)) = 2

----------------------------------------------------------------------------
(* The drill with its commands before the first frame and frames without   *)
(* end, every frame asked for being run.                                   *)

SpecDrillLive ==
    /\ StartIn([Drill EXCEPT !.endless = TRUE, !.inputTicks = { 0 }], GameObstacles)
    /\ [][Next]_vars
    /\ WF_loop(FrameDue)

\* The still-living members of formation f: the units of game.units whose
\* formation it is.
LivingMembers(f) ==
    { e \in DOMAIN game.unit : Live(e) /\ game.unit[e].formation = f }

\* Formation f is assembling, has living members, and the required fraction
\* of them stand within tolerance of their slots.
ReadyAmongLiving(f) ==
    /\ f \in DOMAIN game.formation /\ f \notin hist.started /\ loop.running
    /\ LivingMembers(f) # {}
    /\ Cardinality(LivingMembers(f) \cap InPosition(f)) * 100
           >= Cardinality(LivingMembers(f)) * FORMATION_WAIT_PERCENTAGE

\* C16: the readiness fraction is taken over the still-living members: the
\* first formation, once the required fraction of them is in position,
\* eventually starts moving (unless they cease to be in position), also when
\* other members have died or left during assembly.
C16_ReadyAmongLivingEventuallyStarts ==
    ReadyAmongLiving(1) ~> (~ReadyAmongLiving(1) \/ game.formation[1].isMoving)

----------------------------------------------------------------------------
(* The group move on its own: a selection of every size and every count    *)
(* per class is given one move command.                                    *)

MaxGroup == 20

Classes == { "pikeman", "knight", "archer", "catapult" }

\* The order in which the classes stand in the selection, which is not the
\* order of their pieces in the formation.
ClassOrder == << "knight", "catapult", "pikeman", "archer" >>

RECURSIVE TypesOf(_, _)
\* The classes of the selection from the i-th class of the order on.
TypesOf(count, i) ==
    IF i > Len(ClassOrder) THEN << >>
    ELSE [k \in 1 .. count[ClassOrder[i]] |-> ClassOrder[i]] \o TypesOf(count, i + 1)

\* The units of team 1 on the grid of init(), 15 px apart in rows of five.
Squad(types) ==
    [j \in 1 .. Len(types) |->
        NewUnit(types[j], 1, 10 + ((j - 1) % 5) * 15, 10 + ((j - 1) \div 5) * 15)]

\* The game with all the units selected.
Selected(units) ==
    [GameOf(units) EXCEPT !.selectedUnits = [i \in 1 .. Len(units) |-> i],
                          !.unit = [e \in DOMAIN units |-> [units[e] EXCEPT !.selected = TRUE]]]

InitLayout ==
    \E count \in [Classes -> 0 .. MaxGroup] :
        LET types == TypesOf(count, 1)
        IN  /\ Len(types) >= 2 /\ Len(types) <= MaxGroup
            /\ obstacles = {}
            /\ query = [start |-> Pt(0, 0), target |-> Pt(0, 0)]
            /\ search = NoSearch
            /\ pfState = "done"
            /\ pfResult = NullPath
            /\ game = Selected(Squad(types))
            /\ loop = NoLoop
            /\ hist = HistOf(Squad(types))
            /\ scene = NoScene
            /\ page = NoPage

\* The move command on free ground.
GroupMove ==
    /\ Len(game.formation) = 0
    /\ game' = Settled(contextmenu(game, 90 * Sub, 90 * Sub))
    /\ UNCHANGED << pathVars, loop, hist, scene, page >>

SpecLayout == InitLayout /\ [][GroupMove]_vars

\* C17: the group move gives every unit of the selection a slot, and the
\* (localX, localY) of any two different units are distinct.
C17_SlotsDistinct ==
    \A f \in DOMAIN game.formation :
        \A a, b \in DOMAIN game.unit :
            /\ ~game.unit[a].formationSlot.isNull
            /\ a # b => game.unit[a].formationSlot # game.unit[b].formationSlot

\* Ten units of three classes, seven of them of one class and so in two rows,
\* have been given their slots.
C17_Witness ==
    /\ Len(game.formation) = 1 /\ Len(game.formation[1].allUnits) = 10
    /\ Len(unitsByType(game, game.formation[1].allUnits, 0)) = 7
    /\ Len(unitsByType(game, game.formation[1].allUnits, 1)) = 2
    /\ Len(unitsByType(game, game.formation[1].allUnits, 3)) = 1
    /\ \A e \in DOMAIN game.unit : ~game.unit[e].formationSlot.isNull

----------------------------------------------------------------------------
(* Claims about the commands, checked under SpecDrill.                     *)

\* The units the last command was given to.
CommandedUnits == { hist.command.units[k] : k \in 1 .. Len(hist.command.units) }

\* The step is run by code other than the update of unit e itself: the
\* update of another unit, or the formations phase.
StepOfOther(e) ==
    \/ loop.pc = "formations"
    \/ loop.pc = "units" /\ loop.k < Len(game.units) /\ game.units[loop.k + 1] # e

\* C18: a move command leaves every commanded unit without attack target,
\* whether it created a formation or set a path on a single unit.
C18_MoveCommandClearsAttackTarget ==
    (hist.command.kind = "move" /\ hist.command.fresh) =>
        \A e \in CommandedUnits : game.unit[e].attackTarget = 0

\* C19: after an attack command every commanded unit has the target as
\* attack target and no formation, no formation counts it among its active
\* units, and in later frames no formation code changes its movement target
\* or its moving flag.
C19_AttackCommandDetaches ==
    [][ hist'.command.kind = "attack" =>
            \A e \in CommandedUnits' :
                /\ hist'.command.fresh =>
                       /\ game'.unit[e].attackTarget = hist'.command.target
                       /\ game'.unit[e].formation = 0
                /\ \A f \in DOMAIN game'.formation : ~InSeq(getActiveUnits(game', f), e)
                /\ (hist.command.kind = "attack" /\ StepOfOther(e)) =>
                       /\ game'.unit[e].targetX = game.unit[e].targetX
                       /\ game'.unit[e].targetY = game.unit[e].targetY
                       /\ game'.unit[e].moving = game.unit[e].moving ]_vars

\* C20: after a stop command every commanded unit is not moving, has no
\* attack target, no formation and no formation slot, and its position stays
\* as it is in every later frame until the next command.
C20_StopCommandHalts ==
    [][ hist'.command.kind = "stop" =>
            \A e \in CommandedUnits' :
                /\ hist'.command.fresh =>
                       /\ ~game'.unit[e].moving
                       /\ game'.unit[e].attackTarget = 0
                       /\ game'.unit[e].formation = 0
                       /\ game'.unit[e].formationSlot.isNull
                /\ game'.unit[e].x = game.unit[e].x
                /\ game'.unit[e].y = game.unit[e].y ]_vars

----------------------------------------------------------------------------
(* Claims about the formations a unit belongs to.                          *)

\* The frames and the input events of the muster.
MaxMusterTicks == 2
MaxMusterInputs == 6

\* The muster: three units of team 1 that are given move commands as a group
\* of three and as a group of two, before the first frame.
Muster ==
    [ units |-> << NewUnit("knight", 1, 22, 60), NewUnit("pikeman", 1, 58, 60),
                   NewUnit("knight", 1, 40, 80) >>,
      deltaTimes |-> { 500 },
      downPoints |-> { Px(22, 60), Px(58, 60), Px(40, 80) },
      dragPoints |-> { Px(60, 90) },
      menuPoints |-> { Px(90, 60), Px(30, 20) },
      maxTicks |-> MaxMusterTicks, maxInputs |-> MaxMusterInputs, inputTicks |-> { 0 },
      endless |-> FALSE ]

SpecMuster == StartIn(Muster, GameObstacles) /\ [][Next]_vars

\* The formations the program still works with: those some unit of
\* game.units refers to (lines 1868-1873, and line 462 for the readiness).
FormationsInUse == { f \in DOMAIN game.formation : InSeq(formationsOf(game, 1, << >>), f) }

\* The formations in use that count the unit as active (line 881) and write
\* its target (lines 1002-1013).
ActiveIn(e) ==
    { f \in FormationsInUse : /\ InSeq(getActiveUnits(game, f), e)
                              /\ ~game.unit[e].formationSlot.isNull }

\* C21: in every reachable state each unit is an active member of at most one
\* formation: at most one formation counts it in getActiveUnits and writes
\* its target in updateUnitPositions.
C21_ActiveInAtMostOneFormation ==
    \A e \in DOMAIN game.unit : Cardinality(ActiveIn(e)) <= 1

----------------------------------------------------------------------------
(* The window: the canvas, the grid of the pathfinder and the index of the *)
(* obstacle clusters.                                                      *)

\* The sides (px) the window has when the script loads and after a resize.
PageSides == { 64, 80, 96 }

\* init() places this many obstacles (OBSTACLE_COUNT in the program).
MaxPageObstacles == 3

DIR4 == << << -1, 0 >>, << 1, 0 >>, << 0, -1 >>, << 0, 1 >> >>

inBounds(r, c, rows, cols) == r >= 0 /\ c >= 0 /\ r < rows /\ c < cols

\* gridSize(): Math.floor of the canvas sides over TILE_SIZE.
gridSize(width, height) == [ rows |-> height \div TILE_SIZE, cols |-> width \div TILE_SIZE ]

RECURSIVE spread(_, _, _, _, _, _, _, _)
\* Lines 1431-1438: the for loop over DIR4 from direction d on, around the
\* tile (r, c) taken from the queue.  A key "r,c" is the pair << r, c >>.
spread(compGrid, q, r, c, d, rows, cols, obstacleSet) ==
    IF d > Len(DIR4) THEN [ compGrid |-> compGrid, q |-> q ]
    ELSE LET rr == r + DIR4[d][1]
             cc == c + DIR4[d][2]
         IN  IF \/ ~inBounds(rr, cc, rows, cols)
                \/ ~InSeq(obstacleSet, << rr, cc >>)
                \/ compGrid[<< rr, cc >>] # 0
             THEN spread(compGrid, q, r, c, d + 1, rows, cols, obstacleSet)
             ELSE spread([compGrid EXCEPT ![<< rr, cc >>] = compGrid[<< r, c >>]],
                         Append(q, << rr, cc >>), r, c, d + 1, rows, cols, obstacleSet)

RECURSIVE flood(_, _, _, _, _)
\* Lines 1426-1439: while (q.length), taking the head of the queue.
flood(compGrid, q, rows, cols, obstacleSet) ==
    IF Len(q) = 0 THEN compGrid
    ELSE LET next == spread(compGrid, Tail(q), Head(q)[1], Head(q)[2], 1, rows, cols, obstacleSet)
         IN  flood(next.compGrid, next.q, rows, cols, obstacleSet)

\* A callback that labels a tile again when an earlier cluster reached it.
labelFrom_LabelsAgain(st, k, rows, cols, obstacleSet) ==
    [ compCount |-> st.compCount + 1,
      compGrid |-> flood([st.compGrid EXCEPT ![k] = st.compCount + 1], << k >>,
                         rows, cols, obstacleSet) ]

\* Lines 1417-1440: the callback of obstacleSet.forEach for the key k.
labelFrom(st, k, rows, cols, obstacleSet) ==
    IF st.compGrid[k] # 0 THEN st
    ELSE [ compCount |-> st.compCount + 1,
           compGrid |-> flood([st.compGrid EXCEPT ![k] = st.compCount + 1], << k >>,
                              rows, cols, obstacleSet) ]

RECURSIVE labelEach(_, _, _, _, _)
\* obstacleSet.forEach, in insertion order, from index i on.
labelEach(st, i, rows, cols, obstacleSet) ==
    IF i > Len(obstacleSet) THEN st
    ELSE labelEach(labelFrom(st, obstacleSet[i], rows, cols, obstacleSet), i + 1,
                   rows, cols, obstacleSet)

\* labelComponents(rows, cols, obstacleSet): compGrid and compCount.
labelComponents(rows, cols, obstacleSet) ==
    labelEach([ compCount |-> 0,
                compGrid |-> [t \in (0 .. rows - 1) \X (0 .. cols - 1) |-> 0] ],
              1, rows, cols, obstacleSet)

RECURSIVE obstacleSetOf(_, _, _, _, _)
\* Lines 1560-1566: the Set of the keys of the obstacles inside the grid, in
\* insertion order; an obstacle is the pair << row, column >> of its tile.
obstacleSetOf(obs, i, rows, cols, found) ==
    IF i > Len(obs) THEN found
    ELSE obstacleSetOf(obs, i + 1, rows, cols,
                       IF inBounds(obs[i][1], obs[i][2], rows, cols) /\ ~InSeq(found, obs[i])
                       THEN Append(found, obs[i]) ELSE found)

\* computePerimeterData(), as far as the obstacle clusters: what it stores
\* on game for a canvas of the given size.
computePerimeterData(pg, width, height) ==
    LET size        == gridSize(width, height)
        obstacleSet == obstacleSetOf(pg.obstacles, 1, size.rows, size.cols, << >>)
        labelled    == labelComponents(size.rows, size.cols, obstacleSet)
    IN  [pg EXCEPT !.obstacleSet = obstacleSet,
                   !.rows = size.rows, !.cols = size.cols,
                   !.compGrid = labelled.compGrid, !.compCount = labelled.compCount]

\* Lines 4-5, 308 and 1687-1700: the script loads in a window of the given
\* size, the pathfinder is constructed, init() places the obstacles (tile
\* Math.floor(Math.random() * (side / TILE_SIZE)) in either direction) and
\* computes the perimeter data.
InitPage ==
    \E width \in PageSides, height \in PageSides :
      \E obs \in [1 .. MaxPageObstacles ->
                    (0 .. CeilDiv(height, TILE_SIZE) - 1) \X (0 .. CeilDiv(width, TILE_SIZE) - 1)] :
        /\ page = computePerimeterData(
                      [NoPage EXCEPT !.width = width, !.height = height,
                                     !.gridWidth = CeilDiv(width, TILE_SIZE),
                                     !.gridHeight = CeilDiv(height, TILE_SIZE),
                                     !.obstacles = obs],
                      width, height)
        /\ obstacles = { Pt(obs[i][2] * TileLen, obs[i][1] * TileLen) : i \in DOMAIN obs }
        /\ query = [start |-> Pt(0, 0), target |-> Pt(0, 0)]
        /\ search = NoSearch
        /\ pfState = "done"
        /\ pfResult = NullPath
        /\ game = NoGame /\ loop = NoLoop /\ hist = NoHist /\ scene = NoScene

\* The resize handler, lines 1968-1974.
Resize ==
    /\ \E width \in PageSides, height \in PageSides :
          page' = computePerimeterData([page EXCEPT !.width = width, !.height = height],
                                       width, height)
    /\ UNCHANGED << pathVars, game, loop, hist, scene >>

SpecPage == InitPage /\ [][Resize]_vars

\* C22: in every reachable state, including after any canvas resize, the grid
\* dimensions of the pathfinder and of the obstacle index both equal
\* ceil(canvas width / TILE_SIZE) by ceil(canvas height / TILE_SIZE).
C22_GridsMatchCanvas ==
    /\ page.gridWidth = CeilDiv(page.width, TILE_SIZE)
    /\ page.gridHeight = CeilDiv(page.height, TILE_SIZE)
    /\ page.cols = CeilDiv(page.width, TILE_SIZE)
    /\ page.rows = CeilDiv(page.height, TILE_SIZE)

\* The obstacle tiles of the index.
ObstacleTiles == { page.obstacleSet[i] : i \in DOMAIN page.obstacleSet }

Adjacent4(a, b) == Abs(a[1] - b[1]) + Abs(a[2] - b[2]) = 1

RECURSIVE ClusterAround(_)
\* The obstacle tiles joined to a tile of S by a chain of 4-adjacent obstacle tiles.
ClusterAround(S) ==
    LET more == { b \in ObstacleTiles \ S : \E a \in S : Adjacent4(a, b) }
    IN  IF more = {} THEN S ELSE ClusterAround(S \cup more)

\* C23: labelComponents gives every obstacle tile of the grid one cluster id in
\* 1..compCount and every free tile the id 0; two obstacle tiles have the same
\* id exactly if a chain of 4-adjacent obstacle tiles joins them; an empty
\* obstacle set gives compCount = 0.
C23_ClusterIdsAreFourConnectedClusters ==
    /\ \A t \in DOMAIN page.compGrid :
          IF t \in ObstacleTiles THEN page.compGrid[t] \in 1 .. page.compCount
          ELSE page.compGrid[t] = 0
    /\ \A a \in ObstacleTiles, b \in ObstacleTiles :
          (page.compGrid[a] = page.compGrid[b]) <=> (b \in ClusterAround({ a }))
    /\ ObstacleTiles = {} => page.compCount = 0

\* Two obstacle tiles side by side and a third that touches them at a corner
\* only have been labelled.
C23_Witness ==
    \E a \in ObstacleTiles, b \in ObstacleTiles, c \in ObstacleTiles :
        /\ Adjacent4(a, b)
        /\ Abs(b[1] - c[1]) = 1 /\ Abs(b[2] - c[2]) = 1
        /\ c \notin ClusterAround({ a })
        /\ page.compGrid[c] # page.compGrid[b]

----------------------------------------------------------------------------
(* Claims about the unit under the cursor.                                 *)

\* The frames and the input events of the ranks.
MaxRanksTicks == 2
MaxRanksInputs == 3

\* The ranks: two knights of team 1 side by side, 15 px apart as init()
\* places the units of a row, and an archer of team 2.  The button goes down
\* between the knights within the radius of both (7.4 px and 7.6 px from the
\* first), within the radius of one of them only, and on empty ground.
Ranks ==
    [ units |-> << NewUnit("knight", 1, 40, 40), NewUnit("knight", 1, 55, 40),
                   NewUnit("archer", 2, 70, 80) >>,
      deltaTimes |-> { 500 },
      downPoints |-> { Pt(948, 40 * Sub), Pt(952, 40 * Sub), Px(46, 40), Px(48, 40), Px(20, 20) },
      dragPoints |-> { Px(60, 90) },
      menuPoints |-> { Px(20, 80) },
      maxTicks |-> MaxRanksTicks, maxInputs |-> MaxRanksInputs, inputTicks |-> 0 .. MaxRanksTicks,
      endless |-> FALSE ]

SpecRanks == StartIn(Ranks, GameObstacles) /\ [][Next]_vars

\* The live units whose radius covers the point.
Covering(g, p) ==
    { e \in DOMAIN g.unit : /\ InSeq(g.units, e)
                            /\ Dist2(p.x, p.y, g.unit[e].x, g.unit[e].y) < Sq(Stats[g.unit[e].type].radius) }

\* Those of them no other is nearer to the point than.
Nearest(g, p) ==
    { e \in Covering(g, p) :
        \A o \in Covering(g, p) : Dist2(p.x, p.y, g.unit[e].x, g.unit[e].y)
                                      <= Dist2(p.x, p.y, g.unit[o].x, g.unit[o].y) }

\* The units a step adds to the selection.
NewlySelected == { e \in DOMAIN game.unit : InSeq(game'.selectedUnits, e) /\ ~InSeq(game.selectedUnits, e) }

\* C24: getUnitAt(point) returns null when no live unit lies within its own
\* radius of the point, and otherwise the live unit nearest to the point among
\* those whose radius covers it.  Seen at the mousedown handler, which keeps
\* the point in game.dragStart and selects the unit returned: with no unit
\* covering the point the selection stays, otherwise a nearest unit is in the
\* selection and no other unit has joined it.
C24_UnitAtIsNearestCovering ==
    [][ (game'.dragStart # game.dragStart /\ ~game'.dragStart.isNull) =>
            IF Covering(game, game'.dragStart) = {}
            THEN game'.selectedUnits = game.selectedUnits
            ELSE \E e \in Nearest(game, game'.dragStart) :
                    /\ InSeq(game'.selectedUnits, e)
                    /\ NewlySelected \subseteq { e } ]_vars

----------------------------------------------------------------------------
(* Claims about the flight of a projectile.                                *)

\* Where a projectile is headed: its target point and its velocity.
Aim(pr) == << pr.targetX, pr.targetY, pr.vx, pr.vy, pr.nan >>

\* The indices of the projectiles that the filter of lines 1881-1884 keeps.
Kept(gR) == SelectSeq([i \in 1 .. Len(gR.projectiles) |-> i], LAMBDA i : gR.projectiles[i].active)

\* C25: the target point of a projectile is the place of its target at the
\* instant of firing, and target point and velocity stay as they are in every
\* later step, whatever the target unit does (no homing).
C25_AimFixedAtFiring ==
    [][ IF loop.pc = "projectiles"
        THEN LET kept == Kept(updateProjectiles(game, 1))
             IN  /\ Len(game'.projectiles) = Len(kept)
                 /\ \A j \in 1 .. Len(kept) :
                       Aim(game'.projectiles[j]) = Aim(game.projectiles[kept[j]])
        ELSE /\ Len(game'.projectiles) >= Len(game.projectiles)
             /\ \A j \in 1 .. Len(game.projectiles) :
                   Aim(game'.projectiles[j]) = Aim(game.projectiles[j])
             /\ \A j \in Len(game.projectiles) + 1 .. Len(game'.projectiles) :
                   LET pr == game'.projectiles[j]
                   IN  /\ pr.targetX = game.unit[pr.targetUnit].x
                       /\ pr.targetY = game.unit[pr.targetUnit].y ]_vars

\* An arrow has left the archer and is in flight to the point where its
\* target stood, and the target, alive, has walked away from that point.
C25_Witness ==
    \E j \in 1 .. Len(game.projectiles) :
        LET pr == game.projectiles[j]
        IN  /\ pr.active /\ ~pr.nan
            /\ Live(pr.targetUnit)
            /\ << pr.x, pr.y >> # << game.unit[pr.shooterUnit].x, game.unit[pr.shooterUnit].y >>
            /\ << pr.targetX, pr.targetY >> # << game.unit[pr.targetUnit].x, game.unit[pr.targetUnit].y >>

\* The frames counted and the input events of the volley.
MaxVolleyTicks == 3
MaxVolleyInputs == 4

\* The volley: an archer of team 2 and a knight of team 1 in melee range of
\* it.  The handlers select a unit of either team, so the archer can be given
\* an attack command, on the only unit that is not of team 1: itself.  The
\* input events come before the first frame, the frames go on without end.
Volley ==
    [ units |-> << NewUnit("archer", 2, 60, 60), NewUnit("knight", 1, 40, 60) >>,
      deltaTimes |-> { 500 },
      downPoints |-> { Px(60, 60), Px(40, 60) }, dragPoints |-> { Px(60, 90) },
      menuPoints |-> { Px(60, 60) },
      maxTicks |-> MaxVolleyTicks, maxInputs |-> MaxVolleyInputs, inputTicks |-> { 0 },
      endless |-> TRUE ]

\* The list of projectiles has not outgrown the bound.
Followed == Len(game.projectiles) <= MaxFlying

\* Frames follow each other for ever (requestAnimationFrame, line 1960).
SpecVolley == StartIn(Volley, GameObstacles) /\ [][Next]_vars /\ WF_loop(FrameDue)

\* The projectile phase of a frame in which the oldest projectile of the list
\* is deactivated and removed, or which finds the list empty.
OldestLeaves ==
    /\ loop.pc = "projectiles"
    /\ \/ Len(game.projectiles) = 0
       \/ ~updateProjectiles(game, 1).projectiles[1].active

\* C26: every projectile created by a ranged attack is eventually deactivated
\* and removed from the list, wherever shooter and target stand at firing
\* time: again and again a projectile phase removes the oldest projectile of
\* the list or finds the list empty (unless the list outgrows the bound).
C26_EveryProjectileEventuallyRemoved ==
    []<><< OldestLeaves >>_vars \/ <>(~Followed)

----------------------------------------------------------------------------
(* Claims about the attack target of a unit.                               *)

\* The step is the update of the unit e in the pass over game.units.
UpdateOf(e) == loop.pc = "units" /\ hist'.updated[e] = hist.updated[e] + 1

\* The step is an attack command that gives the unit e its target.
AttackCommandTo(e) ==
    /\ hist'.inputs = hist.inputs + 1
    /\ hist'.command.kind = "attack" /\ hist'.command.fresh
    /\ InSeq(hist'.command.units, e)
    /\ game'.unit[e].attackTarget = hist'.command.target

\* C27: when the attack target of a unit has hp <= 0 at the unit's update,
\* the unit's attack target becomes null, and it stays null until a player
\* command gives the unit a new one: no other step gives a unit a target.
C27_DeadTargetClearedAndNoneAcquired ==
    [][ \A e \in DOMAIN game.unit :
          /\ (/\ UpdateOf(e)
              /\ game.unit[e].attackTarget # 0
              /\ game.unit[game.unit[e].attackTarget].hp <= 0)
                 => game'.unit[e].attackTarget = 0
          /\ (/\ game'.unit[e].attackTarget # game.unit[e].attackTarget
              /\ game'.unit[e].attackTarget # 0)
                 => AttackCommandTo(e) ]_vars

\* The target of the last attack command has died while another unit of its
\* team lives, and a unit the command went to has been updated since and has
\* no attack target.
C27_Witness ==
    /\ hist.command.kind = "attack" /\ ~hist.command.fresh
    /\ game.unit[hist.command.target].hp <= 0
    /\ \E o \in DOMAIN game.unit :
          Live(o) /\ game.unit[o].team = game.unit[hist.command.target].team
    /\ \E e \in DOMAIN game.unit :
          /\ InSeq(hist.command.units, e) /\ Live(e)
          /\ game.unit[e].team # game.unit[hist.command.target].team
          /\ game.unit[e].attackTarget = 0

----------------------------------------------------------------------------
(* Claims about the end of a formation's movement.                         *)

\* The frames and the input events of the parade.
MaxParadeTicks == 24
MaxParadeInputs == 3

\* The parade: two knights of team 1 side by side, sent off together to a
\* point in the tile their centre of mass lies in, to a point in the next
\* tile, or to a point in the tile diagonally below, before the first frame.
Parade ==
    [ units |-> << NewUnit("knight", 1, 50, 48), NewUnit("knight", 1, 50, 68) >>,
      deltaTimes |-> { 500 },
      downPoints |-> { Px(50, 48), Px(50, 68) }, dragPoints |-> { Px(60, 90) },
      menuPoints |-> { Px(60, 58), Px(70, 58), Px(70, 78) },
      maxTicks |-> MaxParadeTicks, maxInputs |-> MaxParadeInputs, inputTicks |-> { 0 },
      endless |-> FALSE ]

SpecParade == StartIn(Parade, GameObstacles) /\ [][Next]_vars

\* The movement of formation f has ended: it had started, its centroid has
\* consumed the final waypoint of its path and isMoving is false again.
Ended(f) ==
    /\ f \in hist.started
    /\ ~game.formation[f].isMoving
    /\ ~game.formation[f].centerPath.isNull
    /\ game.formation[f].currentCenterPathIndex >= Len(game.formation[f].centerPath.pts)

\* C28: when the movement of a formation has ended, its centroid rests
\* exactly at the destination point of the move command, not at the centre of
\* the destination tile, and it stays there.
C28_CentroidRestsAtDestination ==
    \A f \in DOMAIN game.formation :
        Ended(f) => /\ game.formation[f].centerX = game.formation[f].targetX
                    /\ game.formation[f].centerY = game.formation[f].targetY

\* C29: once a formation has started moving and its centroid has finished its
\* path, the formation does not start moving again: no step sets isMoving
\* again or computes a new centroid path for it.
C29_EndedFormationNeverRestarts ==
    [][ \A f \in DOMAIN game.formation :
          Ended(f) => /\ ~game'.formation[f].isMoving
                      /\ game'.formation[f].centerPath = game.formation[f].centerPath ]_vars

----------------------------------------------------------------------------
(* Claims about the conditions of an attack.                               *)

\* The frames and the input events of the charge.
MaxChargeTicks == 18
MaxChargeInputs == 3

\* The charge: an archer of team 2, a knight of team 1 beyond its reach of the
\* archer and a catapult of team 1 nearer to the archer than its minRange;
\* the commands are given before the first frame.
Charge ==
    [ units |-> << NewUnit("archer", 2, 20, 80), NewUnit("knight", 1, 70, 80),
                   NewUnit("catapult", 1, 20, 36) >>,
      deltaTimes |-> { 500 },
      downPoints |-> { Px(70, 80), Px(20, 36) }, dragPoints |-> { Px(60, 90) },
      menuPoints |-> { Px(20, 80) },
      maxTicks |-> MaxChargeTicks, maxInputs |-> MaxChargeInputs, inputTicks |-> { 0 },
      endless |-> FALSE ]

SpecCharge == StartIn(Charge, GameObstacles) /\ [][Next]_vars

\* The step is the update of the unit e and performAttack ran in it.
PerformsAttack(e) == UpdateOf(e) /\ hist'.since[e] = 0

\* The unit e as the tests of lines 362-377 find it in the update about to
\* run: after the cooldown and the animation timer were counted down.
AtTests(e) == tickTimers(game.unit[e], loop.deltaTime)

\* The distance between u and tu lies in the band [minRange, maxRange] of u.
WithinBand(u, tu) ==
    LET d2 == Dist2(u.x, u.y, tu.x, tu.y)
    IN  Sq(Stats[u.type].minRange) <= d2 /\ d2 <= Sq(Stats[u.type].maxRange)

----------------------------------------------------------------------------
(* Claims about a unit that walks alone.                                   *)

\* The frames and the input events of the march.
MaxMarchTicks == 90
MaxMarchInputs == 2

\* The obstacle of the march: the tile in the middle of the playfield.
MarchObstacles == { ObstacleAt(<< 1, 1 >>) }

\* The march: a knight of team 1 to the left of the obstacle, sent before the
\* first frame to a point below it, to a point beside it that lies nearer to
\* the obstacle than the knight's radius, or to the far side of the obstacle.
March ==
    [ units |-> << NewUnit("knight", 1, 21, 48) >>,
      deltaTimes |-> { 500 },
      downPoints |-> { Px(21, 48) }, dragPoints |-> { Px(60, 90) },
      menuPoints |-> { Px(21, 80), Px(25, 48), Px(80, 48) },
      maxTicks |-> MaxMarchTicks, maxInputs |-> MaxMarchInputs, inputTicks |-> { 0 },
      endless |-> FALSE ]

SpecMarch == StartIn(March, MarchObstacles) /\ [][Next]_vars

\* The unit e has been moved by the step.
Moved(e) == game'.unit[e].x # game.unit[e].x \/ game'.unit[e].y # game.unit[e].y

\* C31: no step moves a unit to a position where its bounding box, expanded
\* by its radius, overlaps an obstacle: every position change ends where
\* checkObstacleCollision is false.
C31_NoMoveIntoObstacle ==
    [][ \A e \in DOMAIN game.unit :
          Moved(e) => ~checkObstacleCollision(game'.unit[e].x, game'.unit[e].y,
                                              Stats[game.unit[e].type].radius) ]_vars

\* The last command was a move command to the unit e alone.
SentAlone(e) == hist.command.kind = "move" /\ hist.command.units = << e >>

\* The step is an update of the unit e in which it took a new path (the
\* re-path of lines 625-627 and 653-656).
Repaths(e) ==
    /\ UpdateOf(e)
    /\ game'.unit[e].path # game.unit[e].path
    /\ ~game'.unit[e].path.isNull

\* C32: when a unit that walks alone takes a new path because its next step
\* would collide with an obstacle, the last waypoint of the new path is the
\* destination of the move command.
C32_RepathKeepsDestination ==
    [][ \A e \in DOMAIN game.unit :
          (SentAlone(e) /\ Repaths(e)) =>
              game'.unit[e].path.pts[Len(game'.unit[e].path.pts)]
                  = Pt(hist.command.x, hist.command.y) ]_vars

\* The march with frames without end, every frame asked for being run.
SpecMarchLive ==
    /\ StartIn([March EXCEPT !.endless = TRUE], MarchObstacles)
    /\ [][Next]_vars
    /\ WF_loop(FrameDue)

\* The unit e stands still exactly on the point of the last command.
Arrived(e) ==
    /\ ~game.unit[e].moving
    /\ game.unit[e].x = hist.command.x /\ game.unit[e].y = hist.command.y

\* C33: a unit without attack target that is sent alone to a destination for
\* which findPath returns a path, among static obstacles and with no other
\* unit in contact, eventually stops moving exactly on the destination; it
\* does not stay in a cycle of collision and re-pathing for ever.
C33_SentAloneEventuallyArrives == SentAlone(1) ~> Arrived(1)

----------------------------------------------------------------------------
(* Claims about the targets of the members of a moving formation.          *)

\* The active members of formation f: the units of allUnits that are still
\* in formation and have a slot.
ActiveMembers(g, f) ==
    { e \in DOMAIN g.unit : /\ InSeq(g.formation[f].allUnits, e)
                            /\ g.unit[e].inFormation
                            /\ ~g.unit[e].formationSlot.isNull }

\* The step is the formation pass of a frame and updates the centroid of
\* formation f: f is the formation of a living unit, is moving and has a
\* waypoint left.
CentroidUpdated(f) ==
    /\ loop.pc = "formations"
    /\ InSeq(formationsOf(game, 1, << >>), f)
    /\ game.formation[f].isMoving
    /\ ~game.formation[f].centerPath.isNull
    /\ game.formation[f].currentCenterPathIndex < Len(game.formation[f].centerPath.pts)

\* In the game g the member e of formation f has centroid + rotate(slot) as
\* its target.
OnSlot(g, f, e) ==
    LET r == rotateLocal(g.formation[f], g.unit[e].formationSlot.localX,
                         g.unit[e].formationSlot.localY)
    IN  /\ g.unit[e].targetX = g.formation[f].centerX + r.x
        /\ g.unit[e].targetY = g.formation[f].centerY + r.y

\* C34: after every centroid update of a formation the target of each active
\* member is centroid + rotate(local slot offset), with the direction of the
\* rotation and the slots as they were at the creation of the formation: the
\* layout moves rigidly.
C34_TargetsFollowCentroidRigidly ==
    [][ \A f \in DOMAIN game.formation :
          CentroidUpdated(f) =>
              /\ game'.formation[f].offsetX = game.formation[f].offsetX
              /\ game'.formation[f].offsetY = game.formation[f].offsetY
              /\ \A e \in ActiveMembers(game', f) :
                    /\ game'.unit[e].formationSlot = game.unit[e].formationSlot
                    /\ OnSlot(game', f, e) ]_vars

\* A formation of two that moves obliquely has had its centroid moved to a
\* point between start and destination, and its members, whose rotated
\* slots differ, have their targets on them.
C34_Witness ==
    \E f \in DOMAIN game.formation :
        /\ loop.pc = PhaseAfter("formations") /\ game.formation[f].isMoving
        /\ game.formation[f].offsetX # 0 /\ game.formation[f].offsetY # 0
        /\ game.formation[f].currentCenterPathIndex >= 1
        /\ game.formation[f].centerX # game.formation[f].targetX
        /\ game.formation[f].centerX # game.formation[f].centerPath.pts[1].x
        /\ Cardinality(ActiveMembers(game, f)) = 2
        /\ \A e \in ActiveMembers(game, f) : OnSlot(game, f, e)
        /\ \E a, b \in ActiveMembers(game, f) : game.unit[a].targetX # game.unit[b].targetX

----------------------------------------------------------------------------
(* Claims about the ranks of the layout, checked under SpecLayout.         *)

\* The formationOrder of the unit e.
OrderOf(e) == Stats[game.unit[e].type].formationOrder

\* C35: in the layout of a formation the ranks stack front to back: of any
\* two members the one with the lower formationOrder has the strictly
\* greater forward offset localX.
C35_RanksStackFrontToBack ==
    \A f \in DOMAIN game.formation :
        \A a, b \in DOMAIN game.unit :
            (/\ InSeq(game.formation[f].allUnits, a)
             /\ InSeq(game.formation[f].allUnits, b)
             /\ OrderOf(a) < OrderOf(b)) =>
                game.unit[a].formationSlot.localX > game.unit[b].formationSlot.localX

\* Twenty units of all four classes, thirteen of them pikemen and so in
\* three rows in front of the other pieces, have been given their slots.
C35_Witness ==
    /\ Len(game.formation) = 1 /\ Len(game.formation[1].allUnits) = 20
    /\ Len(unitsByType(game, game.formation[1].allUnits, 0)) = 13
    /\ Len(unitsByType(game, game.formation[1].allUnits, 1)) = 1
    /\ Len(unitsByType(game, game.formation[1].allUnits, 2)) = 5
    /\ Len(unitsByType(game, game.formation[1].allUnits, 3)) = 1
    /\ \E a, b \in DOMAIN game.unit :
          /\ OrderOf(a) = 0 /\ OrderOf(b) = 1
          /\ game.unit[a].formationSlot.localX
                 = game.unit[b].formationSlot.localX + (FORMATION_UNIT_DISTANCE + FORMATION_PIECE_DISTANCE) * Sub

----------------------------------------------------------------------------
(* Claims about a projectile at the edge of the playfield.                 *)

\* The frames and the input events at the edge.
MaxEdgeTicks == 20
MaxEdgeInputs == 4

\* The edge: init() places the units of team 2 at fixed coordinates whatever
\* the size of the window, so in a small window they stand beyond the canvas.
\* An archer of team 1 stands on the canvas; a knight and an archer of team 2
\* stand just beyond its right edge, where a click on the canvas still falls
\* within their radius.
Edge ==
    [ units |-> << NewUnit("archer", 1, 41, 70), NewUnit("knight", 2, 100, 70),
                   NewUnit("archer", 2, 101, 30) >>,
      deltaTimes |-> { 500 },
      downPoints |-> { Px(41, 70), Px(95, 30) }, dragPoints |-> { Px(60, 90) },
      menuPoints |-> { Px(95, 70) },
      maxTicks |-> MaxEdgeTicks, maxInputs |-> MaxEdgeInputs, inputTicks |-> { 0 },
      endless |-> FALSE ]

SpecEdge == StartIn(Edge, GameObstacles) /\ [][Next]_vars

\* Line 1323: the point lies beyond the bounds of the playfield.
OutOfBounds(px, py) == px < 0 \/ px > CanvasWidth \/ py < 0 \/ py > CanvasHeight

\* C37: a projectile that leaves the bounds of the playfield is deactivated
\* without changing the hp of a unit, and an inactive projectile changes no hp
\* in a later tick: in every projectile phase an impact beyond the bounds
\* makes no takeDamage call, the projectiles kept are the active ones, and
\* the impacts are no more than the projectiles removed.
C37_ProjectileOutOfBoundsDamagesNothing ==
    [][ loop.pc = "projectiles" =>
            /\ \A k \in DOMAIN hist'.impacts :
                  OutOfBounds(hist'.impacts[k].x, hist'.impacts[k].y)
                      => Len(hist'.impacts[k].struck) = 0
            /\ \A i \in DOMAIN game'.projectiles : game'.projectiles[i].active
            /\ Len(hist'.impacts) <= Len(game.projectiles) - Len(game'.projectiles) ]_vars

----------------------------------------------------------------------------
(* Claims about a unit in its attack animation.                            *)

\* The frames and the input events of the feint.
MaxFeintTicks == 3
MaxFeintInputs == 4

\* The feint: a knight of team 1 in melee range of a pikeman of team 2, and a
\* knight of team 2 that init() has placed beyond the right edge of the
\* canvas, outside the pathfinder's grid.  Frames of 200 ms, so an attack
\* animation of 300 ms lasts into the next frame; input events before the
\* first frame and between the first two.
Feint ==
    [ units |-> << NewUnit("knight", 1, 50, 70), NewUnit("pikeman", 2, 70, 70),
                   NewUnit("knight", 2, 100, 30) >>,
      deltaTimes |-> { 200 },
      downPoints |-> { Px(50, 70) }, dragPoints |-> { Px(60, 90) },
      menuPoints |-> { Px(70, 70), Px(20, 70), Px(95, 30) },
      maxTicks |-> MaxFeintTicks, maxInputs |-> MaxFeintInputs, inputTicks |-> { 0, 1 },
      endless |-> FALSE ]

SpecFeint == StartIn(Feint, GameObstacles) /\ [][Next]_vars

\* C38: in every tick in which a unit is in its attack animation (isAttacking
\* is true after the timers are decremented) Unit.update leaves the position
\* of the unit unchanged and sets its moving flag to false.
C38_AttackingUnitStandsStill ==
    [][ \A e \in DOMAIN game.unit :
            UpdateOf(e) /\ AtTests(e).isAttacking =>
                /\ game'.unit[e].x = game.unit[e].x
                /\ game'.unit[e].y = game.unit[e].y
                /\ ~game'.unit[e].moving ]_vars

----------------------------------------------------------------------------
(* Claims about the selection.                                             *)

\* C39: in every reachable state every unit of game.selectedUnits is in
\* game.units, the list of the live units, so that no command reaches a unit
\* that has died and no new formation takes one as a member.
C39_SelectionHoldsLiveUnitsOnly ==
    \A i \in DOMAIN game.selectedUnits : Live(game.selectedUnits[i])

----------------------------------------------------------------------------
(* Claims about the open set of a search.                                  *)

\* The long field: a window 480 px wide and 96 px high, a grid of 15 by 3
\* tiles.
LongWidth == 480
LongHeight == 96

\* The obstacles init() has placed, as << row, column >>: five scattered
\* tiles, or a wall across the field.
ScatteredField == << << 1, 1 >>, << 2, 2 >>, << 1, 5 >>, << 1, 12 >>, << 2, 12 >> >>
WalledField == << << 0, 7 >>, << 1, 7 >>, << 2, 7 >> >>

\* A path is asked from a tile of the left edge to a tile of the right edge.
LongStarts == { TileCenter(<< 0, 2 >>), TileCenter(<< 0, 0 >>) }
LongTargets == { TileCenter(<< 14, 2 >>), TileCenter(<< 14, 0 >>) }

\* The script has loaded in the long window and findPath is called.
InitLong ==
    \E obs \in { ScatteredField, WalledField } :
        /\ page = computePerimeterData(
                      [NoPage EXCEPT !.width = LongWidth, !.height = LongHeight,
                                     !.gridWidth = CeilDiv(LongWidth, TILE_SIZE),
                                     !.gridHeight = CeilDiv(LongHeight, TILE_SIZE),
                                     !.obstacles = obs],
                      LongWidth, LongHeight)
        /\ obstacles = { Pt(obs[i][2] * TileLen, obs[i][1] * TileLen) : i \in DOMAIN obs }
        /\ query \in [start : LongStarts, target : LongTargets]
        /\ search = NoSearch
        /\ pfState = "call"
        /\ pfResult = NullPath
        /\ game = NoGame /\ loop = NoLoop /\ hist = NoHist /\ scene = NoScene

SpecLong == InitLong /\ [][NextPath]_vars

\* C36: during one findPath search each tile is added to the open set at most
\* once: a tile that has been selected and removed from the open set is never
\* put back into it.
C36_TileOpenedAtMostOnce ==
    \A k \in DOMAIN search.pushes : search.pushes[k] <= 1

============================================================================
